---- MODULE Spec2Model ----
(***************************************************************************)
(* A model of ResumeParser (src/resume_parser.py).  The parser is a set of *)
(* methods over text; every method is modelled on character strings, with *)
(* Python's string operations and the regular expressions of the source    *)
(* written out as operators.  Each method that loops over lines or pages   *)
(* is a small state machine whose frame (its local variables and its       *)
(* position) is one variable of the model; one specification per method    *)
(* draws the method's argument from a bounded set of texts and runs it.    *)
(*                                                                         *)
(* Line and boundary indices are Python's (zero-based); a sequence `lines` *)
(* of the model holds Python's lines[i] at position i + 1.                 *)
(* The bullet dot (U+2022) of the source is written "~" in the model: no   *)
(* pattern of the source mentions "~".                                     *)
(***************************************************************************)
EXTENDS Integers, Sequences, FiniteSets, TLC

VARIABLES
  fsb,   \* frame of find_section_boundaries / extract_section_content
  sk,    \* frame of extract_skills
  tbl,   \* frame of process_table_data
  xp,    \* frame of extract_experience
  ci,    \* frame of extract_contact_info
  nm,    \* frame of extract_name
  pr,    \* frame of parse_resume
  pdf,   \* frame of extract_text_from_pdf
  edu,   \* frame of extract_education
  blk,   \* frame of extract_tables_from_blocks
  parser, \* the attributes of the ResumeParser instance (self)
  calls, \* frames of the parse_resume calls that run interleaved
  runs   \* the boundary mappings of the completed runs of the segmenter

vars == <<fsb, sk, tbl, xp, ci, nm, pr, pdf, edu, blk, parser, calls, runs>>

\* The value of a frame whose method is not running.
Idle == [pc |-> "idle"]

\* The frame of a method that has been called on a text and has not run its
\* first statement.
Called(text) == [pc |-> "called", text |-> text]

\* Python's None.
None == "None"

(***************************************************************************)
(* Python strings                                                          *)
(***************************************************************************)
BULLET == "~"

Char(s, i) == SubSeq(s, i, i)

\* str.lower() on the upper-case letters.
LowerOf ==
  "A" :> "a" @@ "B" :> "b" @@ "C" :> "c" @@ "D" :> "d" @@ "E" :> "e" @@ "F" :> "f"
  @@ "G" :> "g" @@ "H" :> "h" @@ "I" :> "i" @@ "J" :> "j" @@ "K" :> "k" @@ "L" :> "l"
  @@ "M" :> "m" @@ "N" :> "n" @@ "O" :> "o" @@ "P" :> "p" @@ "Q" :> "q" @@ "R" :> "r"
  @@ "S" :> "s" @@ "T" :> "t" @@ "U" :> "u" @@ "V" :> "v" @@ "W" :> "w" @@ "X" :> "x"
  @@ "Y" :> "y" @@ "Z" :> "z"

\* str.upper() on the lower-case letters.
UpperOf ==
  "a" :> "A" @@ "b" :> "B" @@ "c" :> "C" @@ "d" :> "D" @@ "e" :> "E" @@ "f" :> "F"
  @@ "g" :> "G" @@ "h" :> "H" @@ "i" :> "I" @@ "j" :> "J" @@ "k" :> "K" @@ "l" :> "L"
  @@ "m" :> "M" @@ "n" :> "N" @@ "o" :> "O" @@ "p" :> "P" @@ "q" :> "Q" @@ "r" :> "R"
  @@ "s" :> "S" @@ "t" :> "T" @@ "u" :> "U" @@ "v" :> "V" @@ "w" :> "W" @@ "x" :> "X"
  @@ "y" :> "Y" @@ "z" :> "Z"

DigitChars == {"0", "1", "2", "3", "4", "5", "6", "7", "8", "9"}

IsUpper(c) == c \in DOMAIN LowerOf

IsLower(c) == c \in DOMAIN UpperOf

\* str.isalpha() of one character
IsAlpha(c) == IsUpper(c) \/ IsLower(c)

\* \d of the regular expressions, str.isdigit() of one character
IsDigit(c) == c \in DigitChars

\* \s of the regular expressions, and the characters str.strip() removes.
IsSpace(c) == c \in {" ", "\n", "\t", "\r"}

\* \w of the regular expressions.
IsWordChar(c) == IsAlpha(c) \/ IsDigit(c) \/ c = "_"

LowerChar(c) == IF IsUpper(c) THEN LowerOf[c] ELSE c

UpperChar(c) == IF IsLower(c) THEN UpperOf[c] ELSE c

RECURSIVE LowerRange(_, _, _)
\* str.lower() of s[lo..hi], built by halving (the depth of the evaluation
\* stays logarithmic in the length of the string).
LowerRange(s, lo, hi) ==
  IF lo > hi THEN ""
  ELSE IF lo = hi THEN LowerChar(Char(s, lo))
  ELSE LowerRange(s, lo, (lo + hi) \div 2) \o LowerRange(s, (lo + hi) \div 2 + 1, hi)

\* str.lower()
Lower(s) == LowerRange(s, 1, Len(s))

RECURSIVE UpperRange(_, _, _)
UpperRange(s, lo, hi) ==
  IF lo > hi THEN ""
  ELSE IF lo = hi THEN UpperChar(Char(s, lo))
  ELSE UpperRange(s, lo, (lo + hi) \div 2) \o UpperRange(s, (lo + hi) \div 2 + 1, hi)

\* str.upper()
Upper(s) == UpperRange(s, 1, Len(s))

\* str.title() at one character: a letter that follows a letter is lowered,
\* any other letter is raised.
TitleChar(s, i) ==
  IF i > 1 /\ IsAlpha(Char(s, i - 1)) THEN LowerChar(Char(s, i)) ELSE UpperChar(Char(s, i))

RECURSIVE TitleRange(_, _, _)
TitleRange(s, lo, hi) ==
  IF lo > hi THEN ""
  ELSE IF lo = hi THEN TitleChar(s, lo)
  ELSE TitleRange(s, lo, (lo + hi) \div 2) \o TitleRange(s, (lo + hi) \div 2 + 1, hi)

\* str.title()
Title(s) == TitleRange(s, 1, Len(s))

\* str.lstrip()
LStrip(s) ==
  LET keep == {i \in 1..Len(s) : ~IsSpace(Char(s, i))}
  IN  IF keep = {} THEN ""
      ELSE SubSeq(s, CHOOSE i \in keep : \A j \in keep : i <= j, Len(s))

\* str.rstrip()
RStrip(s) ==
  LET keep == {i \in 1..Len(s) : ~IsSpace(Char(s, i))}
  IN  IF keep = {} THEN ""
      ELSE SubSeq(s, 1, CHOOSE i \in keep : \A j \in keep : i >= j)

\* str.strip()
Strip(s) == RStrip(LStrip(s))

\* min(S)
SetMin(S) == CHOOSE x \in S : \A y \in S : x <= y

\* sub == s[i - 1 : i - 1 + len(sub)]
MatchAt(s, sub, i) == i >= 1 /\ i + Len(sub) - 1 <= Len(s) /\ SubSeq(s, i, i + Len(sub) - 1) = sub

\* sub in s
Contains(s, sub) == \E i \in 1..(Len(s) - Len(sub) + 1) : MatchAt(s, sub, i)

\* str.startswith
StartsWith(s, sub) == MatchAt(s, sub, 1)

\* str.endswith
EndsWith(s, sub) == Len(sub) <= Len(s) /\ MatchAt(s, sub, Len(s) - Len(sub) + 1)

\* str.find, one-based; 0 when sub does not occur at or after position from.
FindFrom(s, sub, from) ==
  LET hits == {i \in from..(Len(s) - Len(sub) + 1) : MatchAt(s, sub, i)}
  IN  IF hits = {} THEN 0 ELSE CHOOSE i \in hits : \A j \in hits : i <= j

Find(s, sub) == FindFrom(s, sub, 1)

RECURSIVE Split(_, _)
\* str.split(sep) for a non-empty separator: "" splits into [""].
Split(s, sep) ==
  LET at == Find(s, sep)
  IN  IF at = 0 THEN <<s>>
      ELSE <<SubSeq(s, 1, at - 1)>> \o Split(SubSeq(s, at + Len(sep), Len(s)), sep)

\* str.split(sep, 1)
Split1(s, sep) ==
  LET at == Find(s, sep)
  IN  IF at = 0 THEN <<s>>
      ELSE <<SubSeq(s, 1, at - 1), SubSeq(s, at + Len(sep), Len(s))>>

RECURSIVE Join(_, _)
\* sep.join(parts)
Join(parts, sep) ==
  IF Len(parts) = 0 THEN ""
  ELSE IF Len(parts) = 1 THEN parts[1]
  ELSE parts[1] \o sep \o Join(Tail(parts), sep)

RECURSIVE Replace(_, _, _)
\* str.replace(old, new) for a non-empty old
Replace(s, old, new) ==
  LET at == Find(s, old)
  IN  IF at = 0 THEN s
      ELSE SubSeq(s, 1, at - 1) \o new \o Replace(SubSeq(s, at + Len(old), Len(s)), old, new)

RECURSIVE SplitWords(_)
\* str.split(): the maximal runs of non-whitespace characters.
SplitWords(s) ==
  LET t == LStrip(s)
      ends == {i \in 1..Len(t) : IsSpace(Char(t, i))}
      stop == IF ends = {} THEN Len(t) + 1 ELSE CHOOSE i \in ends : \A j \in ends : i <= j
  IN  IF t = "" THEN <<>>
      ELSE <<SubSeq(t, 1, stop - 1)>> \o SplitWords(SubSeq(t, stop, Len(t)))

\* The texts made of at most n lines of pool, joined by line breaks.
RECURSIVE LineSeqs(_, _)
LineSeqs(pool, n) ==
  IF n = 0 THEN {<<>>}
  ELSE LET shorter == LineSeqs(pool, n - 1)
       IN  shorter \cup {Append(ls, l) : ls \in {x \in shorter : Len(x) = n - 1}, l \in pool}

(***************************************************************************)
(* ResumeParser.__init__: the keyword tables                               *)
(***************************************************************************)
\* The keys of self.section_headers, in the dictionary's order.
SectionKinds ==
  <<"contact", "summary", "experience", "education", "skills", "projects",
    "certifications", "achievements">>

\* The dictionary that __init__ stores in self.section_headers.
SectionHeadersTable ==
  [kind \in {SectionKinds[n] : n \in 1..Len(SectionKinds)} |->
  CASE kind = "contact" ->
         <<"contact", "personal information", "personal details", "contact information">>
    [] kind = "summary" ->
         <<"summary", "profile", "objective", "about", "professional summary",
           "career objective">>
    [] kind = "experience" ->
         <<"experience", "work experience", "employment", "work history",
           "professional experience", "work", "career", "employment history">>
    [] kind = "education" ->
         <<"education", "academic background", "qualifications", "academic",
           "educational background">>
    [] kind = "skills" ->
         <<"skills", "technical skills", "competencies", "technologies",
           "technical competencies", "core competencies">>
    [] kind = "projects" ->
         <<"projects", "personal projects", "key projects", "project">>
    [] kind = "certifications" ->
         <<"certifications", "certificates", "licenses", "certification">>
    [] kind = "achievements" ->
         <<"achievements", "key achievements", "accomplishments", "awards">>]

\* The list that __init__ stores in self.tech_skills.
TechSkillsList ==
  <<"java", "python", "javascript", "c++", "c#", "php", "ruby", "go", "kotlin", "swift",
    "typescript", "scala", "r", "matlab", "perl", "rust", "dart", "j2ee",
    "spring", "spring boot", "spring mvc", "hibernate", "react", "angular", "vue.js",
    "node.js", "express", "django", "flask", "rails", "laravel", ".net", "asp.net",
    "jquery", "bootstrap", "struts",
    "mysql", "postgresql", "mongodb", "oracle", "sql server", "sqlite", "redis",
    "cassandra", "dynamodb", "elasticsearch", "neo4j", "rdbms",
    "aws", "azure", "gcp", "docker", "kubernetes", "jenkins", "git", "github", "gitlab",
    "terraform", "ansible", "chef", "puppet", "ci/cd",
    "kafka", "rabbitmq", "microservices", "restful api", "rest api", "graphql", "soap",
    "junit", "selenium", "postman", "swagger", "maven", "gradle", "npm", "webpack",
    "tomcat", "jpa", "orm",
    "linux", "unix", "windows", "macos",
    "agile", "scrum", "kanban", "devops", "tdd", "bdd">>

\* The instance after __init__: nlp is the loaded spaCy model, or None when
\* the model is not installed.
ResumeParser(nlp) ==
  [nlp |-> nlp, section_headers |-> SectionHeadersTable, tech_skills |-> TechSkillsList]

\* section_headers for a table that the first completed run of the segmenter
\* uses up: later runs find no keyword.
SectionHeadersFirstRunOnly(kind) ==
  IF runs = <<>> THEN parser.section_headers[kind] ELSE <<>>

\* self.section_headers[kind]
section_headers(kind) == parser.section_headers[kind]

(***************************************************************************)
(* find_section_boundaries                                                 *)
(***************************************************************************)
MaxHeaderLen == 100

ShortHeaderLen == 50

\* line.strip().lower()
LineClean(line) == Lower(Strip(line))

\* The test of one keyword against a line that carries 'headers:'.
TableHeaderMatch(line_clean, keyword) ==
  Contains(Strip(Replace(line_clean, "headers:", "")), keyword)

\* The test of one keyword against any other line.
PlainHeaderMatch(line_clean, keyword) ==
  \/ line_clean = keyword
  \/ /\ Contains(line_clean, keyword)
     /\ Len(line_clean) < ShortHeaderLen
     /\ \/ StartsWith(line_clean, keyword)
        \/ EndsWith(line_clean, keyword)
        \/ line_clean = keyword \o ":"
        \/ line_clean = keyword \o " :"

\* for keyword in keywords: if keyword in header_content: ...; break
AnyTableHeaderMatch(line_clean, keywords) ==
  \E n \in 1..Len(keywords) : TableHeaderMatch(line_clean, keywords[n])

\* for keyword in keywords: if <keyword test>: ...; break
AnyPlainHeaderMatch(line_clean, keywords) ==
  \E n \in 1..Len(keywords) : PlainHeaderMatch(line_clean, keywords[n])

\* The frame on entry: lines = text.split('\n'), sections = {}, the first key, line 0.
\* clean keeps line_clean of each line, computed once.
FsbEnter(text) ==
  LET lines == Split(text, "\n")
  IN  [pc |-> "scan", text |-> text, lines |-> lines,
       clean |-> [n \in 1..Len(lines) |-> LineClean(lines[n])],
       sections |-> <<>>, k |-> 1, i |-> 0, section_name |-> None, content |-> None]

FsbKind(f) == SectionKinds[f.k]

FsbLineClean(f) == f.clean[f.i + 1]

FsbAtLine(f) == f.pc = "scan" /\ f.k <= Len(SectionKinds) /\ f.i < Len(f.lines)

FsbIsLong(f) == Len(FsbLineClean(f)) > MaxHeaderLen

FsbIsTableHeader(f) == Contains(FsbLineClean(f), "headers:")

\* A line longer than 100 characters: continue.
FsbSkipLong(f) == [f EXCEPT !.i = f.i + 1]

\* A 'headers:' line: the boundary is set when a keyword occurs in the rest of
\* the line, and the scan of this kind continues with the next line.
FsbTableHeader(f) ==
  LET hit == AnyTableHeaderMatch(FsbLineClean(f), section_headers(FsbKind(f)))
  IN  [f EXCEPT !.i = f.i + 1,
                !.sections = IF hit THEN (FsbKind(f) :> f.i) @@ f.sections ELSE f.sections]

\* Any other line: the boundary is set when a keyword matches, and the scan of
\* this kind ends as soon as the kind has a boundary.
FsbPlain(f) ==
  LET hit == AnyPlainHeaderMatch(FsbLineClean(f), section_headers(FsbKind(f)))
      sections == IF hit THEN (FsbKind(f) :> f.i) @@ f.sections ELSE f.sections
  IN  IF FsbKind(f) \in DOMAIN sections
      THEN [f EXCEPT !.sections = sections, !.k = f.k + 1, !.i = 0]
      ELSE [f EXCEPT !.sections = sections, !.i = f.i + 1]

\* The lines are exhausted: the next key of the dictionary.
FsbNextKind(f) == [f EXCEPT !.k = f.k + 1, !.i = 0]

\* return sections
FsbReturn(f) == [f EXCEPT !.pc = "returned"]

FsbStep(f) ==
  IF f.k > Len(SectionKinds) THEN FsbReturn(f)
  ELSE IF f.i >= Len(f.lines) THEN FsbNextKind(f)
  ELSE IF FsbIsLong(f) THEN FsbSkipLong(f)
  ELSE IF FsbIsTableHeader(f) THEN FsbTableHeader(f)
  ELSE FsbPlain(f)

RECURSIVE FsbRun(_)
FsbRun(f) == IF f.pc = "returned" THEN f ELSE FsbRun(FsbStep(f))

\* find_section_boundaries(text), run to its return.
find_section_boundaries(text) == FsbRun(FsbEnter(text)).sections

(***************************************************************************)
(* extract_section_content                                                 *)
(***************************************************************************)
RECURSIVE EndIdxLoopAnyLarger(_, _, _, _)
\* EndIdxLoop without the test other_idx < end_idx: the last larger boundary wins.
EndIdxLoopAnyLarger(section_boundaries, start_idx, end_idx, n) ==
  IF n > Len(SectionKinds) THEN end_idx
  ELSE LET other == SectionKinds[n]
           present == other \in DOMAIN section_boundaries
           other_idx == section_boundaries[other]
       IN  IF present /\ other_idx > start_idx
           THEN EndIdxLoopAnyLarger(section_boundaries, start_idx, other_idx, n + 1)
           ELSE EndIdxLoopAnyLarger(section_boundaries, start_idx, end_idx, n + 1)

RECURSIVE EndIdxLoopFirstLarger(_, _, _, _)
\* The loop when it stops at the first boundary larger than start_idx that
\* the dictionary's order gives, without lowering end_idx any further.
EndIdxLoopFirstLarger(section_boundaries, start_idx, end_idx, n) ==
  IF n > Len(SectionKinds) THEN end_idx
  ELSE LET other == SectionKinds[n]
           present == other \in DOMAIN section_boundaries
           other_idx == section_boundaries[other]
       IN  IF present /\ other_idx > start_idx /\ other_idx < end_idx
           THEN other_idx
           ELSE EndIdxLoopFirstLarger(section_boundaries, start_idx, end_idx, n + 1)

RECURSIVE EndIdxLoop(_, _, _, _)
\* The loop over section_boundaries.items(), in the dictionary's order, that
\* lowers end_idx to every boundary between start_idx and end_idx.
EndIdxLoop(section_boundaries, start_idx, end_idx, n) ==
  IF n > Len(SectionKinds) THEN end_idx
  ELSE LET other == SectionKinds[n]
           present == other \in DOMAIN section_boundaries
           other_idx == section_boundaries[other]
       IN  IF present /\ other_idx > start_idx /\ other_idx < end_idx
           THEN EndIdxLoop(section_boundaries, start_idx, other_idx, n + 1)
           ELSE EndIdxLoop(section_boundaries, start_idx, end_idx, n + 1)

RECURSIVE PopBlankLines(_)
\* while content_lines and not content_lines[-1].strip(): content_lines.pop()
PopBlankLines(content_lines) ==
  IF Len(content_lines) > 0 /\ Strip(content_lines[Len(content_lines)]) = ""
  THEN PopBlankLines(SubSeq(content_lines, 1, Len(content_lines) - 1))
  ELSE content_lines

\* lines[start_idx + 1 : end_idx]
ContentSlice(lines, start_idx, end_idx) == SubSeq(lines, start_idx + 2, end_idx)

\* extract_section_content without the test `section_name not in
\* section_boundaries`: a kind without a boundary gets the whole text.
ExtractSectionContentUnguarded(text, section_name, section_boundaries) ==
  LET lines == Split(text, "\n")
      start_idx == IF section_name \in DOMAIN section_boundaries
                   THEN section_boundaries[section_name] ELSE 0 - 1
      end_idx == EndIdxLoop(section_boundaries, start_idx, Len(lines), 1)
      content_lines == PopBlankLines(ContentSlice(lines, start_idx, end_idx))
  IN  Strip(Join(content_lines, "\n"))

extract_section_content(text, section_name, section_boundaries) ==
  IF section_name \notin DOMAIN section_boundaries THEN ""
  ELSE LET lines == Split(text, "\n")
           start_idx == section_boundaries[section_name]
           end_idx == EndIdxLoop(section_boundaries, start_idx, Len(lines), 1)
           content_lines == PopBlankLines(ContentSlice(lines, start_idx, end_idx))
       IN  Strip(Join(content_lines, "\n"))

(***************************************************************************)
(* The segmenter as a state machine                                        *)
(***************************************************************************)
MaxSegLines == 3

LongHeaderLine ==
  "skills and a sentence of running prose that goes on for well over one hundred characters in all, as prose lines do"

SegPool ==
  {"Skills", "Headers: Skills | Level", "Education", "", "  Python ",
   "Career Objective", LongHeaderLine}

SegOthers == <<sk, tbl, xp, ci, nm, pr, pdf, edu, blk, parser, calls, runs>>

SegInit ==
  /\ parser = ResumeParser(None)
  /\ calls = <<>> /\ runs = <<>>
  /\ \E ls \in LineSeqs(SegPool, MaxSegLines) : fsb = FsbEnter(Join(ls, "\n"))
  /\ sk = Idle /\ tbl = Idle /\ xp = Idle /\ ci = Idle /\ nm = Idle
  /\ pr = Idle /\ pdf = Idle /\ edu = Idle /\ blk = Idle

ScanLongLine ==
  /\ FsbAtLine(fsb) /\ FsbIsLong(fsb)
  /\ fsb' = FsbSkipLong(fsb)
  /\ UNCHANGED SegOthers

ScanTableHeaderLine ==
  /\ FsbAtLine(fsb) /\ ~FsbIsLong(fsb) /\ FsbIsTableHeader(fsb)
  /\ fsb' = FsbTableHeader(fsb)
  /\ UNCHANGED SegOthers

ScanPlainLine ==
  /\ FsbAtLine(fsb) /\ ~FsbIsLong(fsb) /\ ~FsbIsTableHeader(fsb)
  /\ fsb' = FsbPlain(fsb)
  /\ UNCHANGED SegOthers

ScanNextKind ==
  /\ fsb.pc = "scan" /\ fsb.k <= Len(SectionKinds) /\ fsb.i >= Len(fsb.lines)
  /\ fsb' = FsbNextKind(fsb)
  /\ UNCHANGED SegOthers

ScanReturn ==
  /\ fsb.pc = "scan" /\ fsb.k > Len(SectionKinds)
  /\ fsb' = FsbReturn(fsb)
  /\ UNCHANGED SegOthers

\* A caller asks for the content of one section with the boundaries found.
ExtractSectionContent ==
  /\ fsb.pc = "returned"
  /\ \E section_name \in {SectionKinds[n] : n \in 1..Len(SectionKinds)} :
       fsb' = [fsb EXCEPT !.pc = "extracted", !.section_name = section_name,
                          !.content = extract_section_content(fsb.text, section_name,
                                                              fsb.sections)]
  /\ UNCHANGED SegOthers

SegNext ==
  \/ ScanLongLine
  \/ ScanTableHeaderLine
  \/ ScanPlainLine
  \/ ScanNextKind
  \/ ScanReturn
  \/ ExtractSectionContent

SpecSeg == SegInit /\ [][SegNext]_vars

(***************************************************************************)
(* Properties of the segmenter                                             *)
(***************************************************************************)
FsbDone == fsb.pc \in {"returned", "extracted"}

\* A line is a header of a kind when it is at most 100 characters long and one
\* of the kind's keywords matches it, as a table header line or as a plain line.
LineMatchesKind(kind, line) ==
  LET lc == LineClean(line)
  IN  /\ Len(lc) <= MaxHeaderLen
      /\ IF Contains(lc, "headers:")
         THEN \E n \in 1..Len(section_headers(kind)) :
                TableHeaderMatch(lc, section_headers(kind)[n])
         ELSE \E n \in 1..Len(section_headers(kind)) :
                PlainHeaderMatch(lc, section_headers(kind)[n])

MatchingLines(kind, lines) == {i \in 0..(Len(lines) - 1) : LineMatchesKind(kind, lines[i + 1])}

\* C2: the boundary recorded for a kind is the index of the first line, in
\* document order, that matches a keyword of the kind (as a plain header line
\* or as a 'headers:' line); no later line changes it.
C2_FirstMatchWins ==
  FsbDone =>
    \A kind \in DOMAIN fsb.sections :
      /\ MatchingLines(kind, fsb.lines) # {}
      /\ fsb.sections[kind] = SetMin(MatchingLines(kind, fsb.lines))

\* The boundaries of the detected kinds.
BoundarySet(sections) == {sections[kind] : kind \in DOMAIN sections}

\* The smallest boundary larger than s, or the number of lines.
NextBoundary(sections, s, nlines) ==
  LET larger == {b \in BoundarySet(sections) : b > s}
  IN  IF larger = {} THEN nlines ELSE SetMin(larger)

\* The lines with index strictly between s and e.
LinesBetween(lines, s, e) == [n \in 1..(e - s - 1) |-> lines[s + 1 + n]]

\* ls without its trailing blank lines.
WithoutTrailingBlank(ls) ==
  LET full == {n \in 1..Len(ls) : Strip(ls[n]) # ""}
  IN  IF full = {} THEN <<>> ELSE SubSeq(ls, 1, CHOOSE n \in full : \A m \in full : n >= m)

C3Between ==
  LinesBetween(fsb.lines, fsb.sections[fsb.section_name],
               NextBoundary(fsb.sections, fsb.sections[fsb.section_name], Len(fsb.lines)))

\* C3 as stated: the content of a detected kind is exactly the lines strictly
\* between its boundary and the next larger boundary (or the end), with the
\* trailing blank lines removed; the content of a kind not detected is empty.
C3_ContentTrailingTrimmed ==
  fsb.pc = "extracted" =>
    IF fsb.section_name \in DOMAIN fsb.sections
    THEN fsb.content = Join(WithoutTrailingBlank(C3Between), "\n")
    ELSE fsb.content = ""

\* C3 as amended: the content of a detected kind is the lines strictly between
\* its boundary and the next larger boundary (or the end), joined by line
\* breaks, with the whitespace at both ends of the whole removed (blank lines
\* at either end and the indentation of the first remaining line go too); the
\* content of a kind not detected is empty.
C3_ContentStripped ==
  fsb.pc = "extracted" =>
    IF fsb.section_name \in DOMAIN fsb.sections
    THEN fsb.content = Strip(Join(C3Between, "\n"))
    ELSE fsb.content = ""

\* A detected kind followed by another boundary, with content that was trimmed.
C3_Witness ==
  /\ fsb.pc = "extracted"
  /\ fsb.section_name \in DOMAIN fsb.sections
  /\ \E b \in BoundarySet(fsb.sections) : b > fsb.sections[fsb.section_name]
  /\ fsb.content # ""
  /\ fsb.content # Join(C3Between, "\n")

(***************************************************************************)
(* process_table_data                                                      *)
(***************************************************************************)
DigitString == "0123456789"

RECURSIVE IntToStr(_)
\* str(n) of the f-strings, for n >= 0
IntToStr(n) ==
  IF n < 10 THEN Char(DigitString, n + 1)
  ELSE IntToStr(n \div 10) \o Char(DigitString, (n % 10) + 1)

\* cell.strip() if cell else ""
CellText(cell) == IF cell = None \/ cell = "" THEN "" ELSE Strip(cell)

\* [cell.strip() if cell else "" for cell in table[0]]
HeaderCells(row) == [n \in 1..Len(row) |-> CellText(row[n])]

\* row and any(cell and cell.strip() for cell in row)
RowHasText(row) == \E n \in 1..Len(row) : CellText(row[n]) # ""

\* headers[col_num] if col_num < len(headers) and headers[col_num] else f"Col{col_num+1}"
ColumnHeader(headers, col_num) ==
  IF col_num < Len(headers) /\ headers[col_num + 1] # ""
  THEN headers[col_num + 1]
  ELSE "Col" \o IntToStr(col_num + 1)

RECURSIVE RowData(_, _, _)
\* row_data: one "header: cell_text" per cell with text, from column col_num on.
RowData(headers, row, col_num) ==
  IF col_num >= Len(row) THEN <<>>
  ELSE LET cell_text == CellText(row[col_num + 1])
           rest == RowData(headers, row, col_num + 1)
       IN  IF cell_text # ""
           THEN <<ColumnHeader(headers, col_num) \o ": " \o cell_text>> \o rest
           ELSE rest

\* The rows over which the data loop runs, table itself when it has one row.
DataRowsSkippingNothing(table) == table

\* table[1:] if len(table) > 1 else table
DataRows(table) == IF Len(table) > 1 THEN Tail(table) ELSE table

\* The frame after `if not table: return ""` and the header step.
TblEnter(table) ==
  IF Len(table) = 0
  THEN [pc |-> "returned", table |-> table, headers |-> <<>>, processed_text |-> "",
        rows |-> <<>>, row_num |-> 0]
  ELSE [pc |-> "headers", table |-> table, headers |-> <<>>, processed_text |-> "",
        rows |-> DataRows(table), row_num |-> 0]

\* if table and table[0]: headers = ...; processed_text += "Headers: " ...
TblHeaders(f) ==
  IF Len(f.table[1]) > 0
  THEN [f EXCEPT !.pc = "rows",
                 !.headers = HeaderCells(f.table[1]),
                 !.processed_text = "Headers: " \o Join(HeaderCells(f.table[1]), " | ") \o "\n"]
  ELSE [f EXCEPT !.pc = "rows"]

\* One turn of the loop over the data rows.
TblRow(f) ==
  LET row == f.rows[f.row_num + 1]
      row_data == RowData(f.headers, row, 0)
      line == "Row " \o IntToStr(f.row_num + 1) \o ": " \o Join(row_data, " | ") \o "\n"
  IN  IF Len(row) > 0 /\ RowHasText(row) /\ Len(row_data) > 0
      THEN [f EXCEPT !.row_num = f.row_num + 1, !.processed_text = f.processed_text \o line]
      ELSE [f EXCEPT !.row_num = f.row_num + 1]

TblReturn(f) == [f EXCEPT !.pc = "returned"]

TblStep(f) ==
  IF f.pc = "headers" THEN TblHeaders(f)
  ELSE IF f.row_num < Len(f.rows) THEN TblRow(f)
  ELSE TblReturn(f)

RECURSIVE TblRun(_)
TblRun(f) == IF f.pc = "returned" THEN f ELSE TblRun(TblStep(f))

\* process_table_data(table, page_num, table_num): the page and table numbers are not used.
process_table_data(table) == TblRun(TblEnter(table)).processed_text

(***************************************************************************)
(* The table normalizer as a state machine                                 *)
(***************************************************************************)
MaxTableRows == 3

\* Rows as pdfplumber gives them: lists of cells, a cell a string or None.
TableRowPool ==
  {<<"Name", "Skill">>, <<"Alice", "Go">>, <<"", "  ">>, <<None, " Bob ">>, <<>>,
   <<"Carol", "C", "Dev\nOps">>}

TblOthers == <<fsb, sk, xp, ci, nm, pr, pdf, edu, blk, parser, calls, runs>>

TblInit ==
  /\ parser = ResumeParser(None)
  /\ calls = <<>> /\ runs = <<>>
  /\ \E table \in LineSeqs(TableRowPool, MaxTableRows) : tbl = TblEnter(table)
  /\ fsb = Idle /\ sk = Idle /\ xp = Idle /\ ci = Idle /\ nm = Idle
  /\ pr = Idle /\ pdf = Idle /\ edu = Idle /\ blk = Idle

TableHeaders ==
  /\ tbl.pc = "headers"
  /\ tbl' = TblHeaders(tbl)
  /\ UNCHANGED TblOthers

TableRow ==
  /\ tbl.pc = "rows" /\ tbl.row_num < Len(tbl.rows)
  /\ tbl' = TblRow(tbl)
  /\ UNCHANGED TblOthers

TableReturn ==
  /\ tbl.pc = "rows" /\ tbl.row_num >= Len(tbl.rows)
  /\ tbl' = TblReturn(tbl)
  /\ UNCHANGED TblOthers

TblNext ==
  \/ TableHeaders
  \/ TableRow
  \/ TableReturn

SpecTable == TblInit /\ [][TblNext]_vars

(***************************************************************************)
(* Properties of the table normalizer                                      *)
(***************************************************************************)
\* The text of a cell: None and "" are empty, any other cell is trimmed.
TrimmedCell(cell) == IF cell = None THEN "" ELSE Strip(cell)

\* The "Header_i: cell_i" segments of a row, in column order: one per cell with
\* text, labelled with the header of its column, or ColN when that is missing.
ExpectedSegments(table, row) ==
  LET cols == {n \in 1..Len(row) : TrimmedCell(row[n]) # ""}
      label(n) == IF n <= Len(table[1]) /\ TrimmedCell(table[1][n]) # ""
                  THEN TrimmedCell(table[1][n]) ELSE "Col" \o IntToStr(n)
      RECURSIVE from(_)
      from(n) == IF n > Len(row) THEN <<>>
                 ELSE IF n \in cols
                 THEN <<label(n) \o ": " \o TrimmedCell(row[n])>> \o from(n + 1)
                 ELSE from(n + 1)
  IN  from(1)

\* The "Row k: ..." lines of the rows of table with index in lo..hi that have text.
ExpectedRowLines(table, lo, hi) ==
  LET RECURSIVE from(_)
      from(k) == IF k > hi THEN ""
                 ELSE IF ExpectedSegments(table, table[k + 1]) # <<>>
                 THEN "Row " \o IntToStr(k) \o ": "
                      \o Join(ExpectedSegments(table, table[k + 1]), " | ") \o "\n" \o from(k + 1)
                 ELSE from(k + 1)
  IN  from(lo)

ExpectedHeaderLine(table) ==
  "Headers: " \o Join([n \in 1..Len(table[1]) |-> TrimmedCell(table[1][n])], " | ") \o "\n"

TblRow0NonEmpty == Len(tbl.table) > 0 /\ Len(tbl.table[1]) > 0

\* C5 as stated: for a table whose row 0 is non-empty the output is the
\* Headers line followed by one "Row k: ..." line for each row after row 0
\* that has text, in order; row 0 never produces a Row line.
C5_Row0OnlyHeader ==
  (tbl.pc = "returned" /\ TblRow0NonEmpty) =>
    tbl.processed_text =
      ExpectedHeaderLine(tbl.table) \o ExpectedRowLines(tbl.table, 1, Len(tbl.table) - 1)

\* C5 as amended: the same for a table of two or more rows; for a table of one
\* row, row 0 is the header row and the only data row, so the Headers line is
\* followed by "Row 1: h1: h1 | ..." made of row 0 itself when it has text.
C5_Row0HeaderUnlessAlone ==
  (tbl.pc = "returned" /\ TblRow0NonEmpty) =>
    tbl.processed_text =
      IF Len(tbl.table) > 1
      THEN ExpectedHeaderLine(tbl.table)
           \o ExpectedRowLines(tbl.table, 1, Len(tbl.table) - 1)
      ELSE ExpectedHeaderLine(tbl.table)
           \o (IF ExpectedSegments(tbl.table, tbl.table[1]) # <<>>
               THEN "Row 1: " \o Join(ExpectedSegments(tbl.table, tbl.table[1]), " | ") \o "\n"
               ELSE "")

\* The table of the spec's example, normalized.
C5_Witness ==
  /\ tbl.pc = "returned"
  /\ tbl.table = <<(<<"Name", "Skill">>), (<<"Alice", "Go">>)>>
  /\ tbl.processed_text = "Headers: Name | Skill\nRow 1: Name: Alice | Skill: Go\n"

(***************************************************************************)
(* extract_skills                                                          *)
(***************************************************************************)
\* self.tech_skills
tech_skills == parser.tech_skills

\* \b of re at the gap before position p of s (p = Len(s) + 1: the end).
WordBoundaryAt(s, p) ==
  LET before == p > 1 /\ IsWordChar(Char(s, p - 1))
      after == p <= Len(s) /\ IsWordChar(Char(s, p))
  IN  before # after

\* re.search(r'\b' + re.escape(word) + r'\b', s)
WholeWordIn(s, word) ==
  \E i \in 1..(Len(s) - Len(word) + 1) :
    MatchAt(s, word, i) /\ WordBoundaryAt(s, i) /\ WordBoundaryAt(s, i + Len(word))

RECURSIVE VocabularyHits(_, _, _)
\* The first loop: skill.title() for each skill of tech_skills[lo..hi] that
\* occurs in text_lower as a whole word, in the order of the list.
VocabularyHits(text_lower, lo, hi) ==
  IF lo > hi THEN <<>>
  ELSE IF lo = hi
  THEN (IF Contains(text_lower, tech_skills[lo]) /\ WholeWordIn(text_lower, tech_skills[lo])
        THEN <<Title(tech_skills[lo])>> ELSE <<>>)
  ELSE VocabularyHits(text_lower, lo, (lo + hi) \div 2)
       \o VocabularyHits(text_lower, (lo + hi) \div 2 + 1, hi)

CategoryHeaders == <<"languages:", "frameworks:", "databases:", "tools:", "architecture:">>

\* any(header in line.lower() for header in [...])
IsCategoryHeader(line) ==
  \E n \in 1..Len(CategoryHeaders) : Contains(Lower(line), CategoryHeaders[n])

SkillDelimiters == {",", BULLET, "\n", "-", "|"}

RECURSIVE SplitOnAny(_, _)
\* re.split(r'[<seps>]', s)
SplitOnAny(s, seps) ==
  LET at == {i \in 1..Len(s) : Char(s, i) \in seps}
      first == CHOOSE i \in at : \A j \in at : i <= j
  IN  IF at = {} THEN <<s>>
      ELSE <<SubSeq(s, 1, first - 1)>> \o SplitOnAny(SubSeq(s, first + 1, Len(s)), seps)

SkillNoise ==
  <<"@", ".com", "present", "mumbai", "bangalore", "years", "experience",
    "oct", "dec", "gained", "hands", "system", "framework", "between",
    "time", "syncing", "reducing", "transaction", "failures", "collaborated",
    "frontend", "meet", "business", "goals", "software", "engineer">>

SkillStopwords == {"and", "the", "for", "with", "from", "to", "in", "on", "at", "by"}

MinSkillLen == 2

MaxSkillLen == 25

\* str.isdigit()
IsDigitString(s) == Len(s) > 0 /\ \A i \in 1..Len(s) : IsDigit(Char(s, i))

\* re.match(r'^[<bullet>\-\*\s]+$', s)
IsSymbolsOnly(s) ==
  /\ Len(s) > 0
  /\ \A i \in 1..Len(s) :
       \/ Char(s, i) \in {BULLET, "-", "*"}
       \/ IsSpace(Char(s, i))

\* The filter of the second loop on a stripped token.
SkillTokenOk(skill) ==
  /\ MinSkillLen <= Len(skill) /\ Len(skill) <= MaxSkillLen
  /\ ~\E n \in 1..Len(SkillNoise) : Contains(Lower(skill), SkillNoise[n])
  /\ ~IsDigitString(skill)
  /\ ~IsSymbolsOnly(skill)
  /\ ~Contains(skill, "@")
  /\ Lower(skill) \notin SkillStopwords

RECURSIVE KeepSkillTokens(_)
\* The tokens of one line that pass the filter, stripped, in order.
KeepSkillTokens(skills_in_line) ==
  IF Len(skills_in_line) = 0 THEN <<>>
  ELSE LET skill == Strip(Head(skills_in_line))
       IN  (IF SkillTokenOk(skill) THEN <<skill>> ELSE <<>>)
           \o KeepSkillTokens(Tail(skills_in_line))

\* The key under which a skill is remembered in `seen`, when case is not folded.
SeenKeyExact(skill_clean) == skill_clean

\* skill_lower = skill_clean.lower()
SeenKey(skill_clean) == Lower(skill_clean)

RECURSIVE Dedup(_, _, _)
\* The last loop: the skills not seen before, up to case, in order.
Dedup(found_skills, seen, n) ==
  IF n > Len(found_skills) THEN <<>>
  ELSE LET skill_clean == Strip(found_skills[n])
       IN  IF SeenKey(skill_clean) \notin seen /\ skill_clean # ""
           THEN <<skill_clean>> \o Dedup(found_skills, seen \cup {SeenKey(skill_clean)}, n + 1)
           ELSE Dedup(found_skills, seen, n + 1)

\* The frame after the section has been cut out: return [] when it is empty.
SkEnter(text) ==
  LET skills_text == extract_section_content(text, "skills", find_section_boundaries(text))
  IN  [pc |-> IF skills_text = "" THEN "returned" ELSE "vocabulary",
       text |-> text, skills_text |-> skills_text, found_skills |-> <<>>,
       lines |-> <<>>, i |-> 0, unique_skills |-> <<>>]

\* The loop over self.tech_skills.
SkVocabulary(f) ==
  [f EXCEPT !.pc = "lines",
            !.found_skills = VocabularyHits(Lower(f.skills_text), 1, Len(tech_skills)),
            !.lines = Split(f.skills_text, "\n")]

\* One line of the structured pass.
SkLine(f) ==
  LET line == Strip(f.lines[f.i + 1])
  IN  IF line = "" \/ IsCategoryHeader(line)
      THEN [f EXCEPT !.i = f.i + 1]
      ELSE [f EXCEPT !.i = f.i + 1,
                     !.found_skills =
                        f.found_skills \o KeepSkillTokens(SplitOnAny(line, SkillDelimiters))]

\* Remove duplicates and return.
SkReturn(f) ==
  [f EXCEPT !.pc = "returned", !.unique_skills = Dedup(f.found_skills, {}, 1)]

SkStep(f) ==
  IF f.pc = "vocabulary" THEN SkVocabulary(f)
  ELSE IF f.i < Len(f.lines) THEN SkLine(f)
  ELSE SkReturn(f)

RECURSIVE SkRun(_)
SkRun(f) == IF f.pc = "returned" THEN f ELSE SkRun(SkStep(f))

extract_skills(text) == SkRun(SkEnter(text)).unique_skills

(***************************************************************************)
(* The skills parser as a state machine                                    *)
(***************************************************************************)
MaxSkillLines == 2

SkillLinePool ==
  {"Python, python", "python | Python", "AWS, aws", "Foo, foo", "foo - FOO",
   "Languages: Bar, bar", "Mumbai, mumbai", "R, r", "", "Education"}

SkOthers == <<fsb, tbl, xp, ci, nm, pr, pdf, edu, blk, parser, calls, runs>>

SkInit ==
  /\ parser = ResumeParser(None)
  /\ calls = <<>> /\ runs = <<>>
  /\ \E ls \in LineSeqs(SkillLinePool, MaxSkillLines) :
       sk = Called(Join(<<"Skills">> \o ls, "\n"))
  /\ fsb = Idle /\ tbl = Idle /\ xp = Idle /\ ci = Idle /\ nm = Idle
  /\ pr = Idle /\ pdf = Idle /\ edu = Idle /\ blk = Idle

SkillsSection ==
  /\ sk.pc = "called"
  /\ sk' = SkEnter(sk.text)
  /\ UNCHANGED SkOthers

SkillsVocabulary ==
  /\ sk.pc = "vocabulary"
  /\ sk' = SkVocabulary(sk)
  /\ UNCHANGED SkOthers

SkillsLine ==
  /\ sk.pc = "lines" /\ sk.i < Len(sk.lines)
  /\ sk' = SkLine(sk)
  /\ UNCHANGED SkOthers

SkillsReturn ==
  /\ sk.pc = "lines" /\ sk.i >= Len(sk.lines)
  /\ sk' = SkReturn(sk)
  /\ UNCHANGED SkOthers

SkNext ==
  \/ SkillsSection
  \/ SkillsVocabulary
  \/ SkillsLine
  \/ SkillsReturn

SpecSkills == SkInit /\ [][SkNext]_vars

(***************************************************************************)
(* Properties of the skills parser                                         *)
(***************************************************************************)
\* The tokens of one line: its pieces between delimiters, trimmed.
LineTokens(line) ==
  LET parts == SplitOnAny(Strip(line), SkillDelimiters)
  IN  [n \in 1..Len(parts) |-> Strip(parts[n])]

RECURSIVE SectionTokens(_, _)
\* The non-empty tokens of the lines n.. of the section, in order.
SectionTokens(lines, n) ==
  IF n > Len(lines) THEN <<>>
  ELSE SelectSeq(LineTokens(lines[n]), LAMBDA t : t # "") \o SectionTokens(lines, n + 1)

RECURSIVE AcceptedTokens(_, _)
\* The tokens that count as skills: those of the lines that are not category
\* headers which pass the noise filter, in order.
AcceptedTokens(lines, n) ==
  IF n > Len(lines) THEN <<>>
  ELSE (IF IsCategoryHeader(Strip(lines[n])) THEN <<>>
        ELSE SelectSeq(LineTokens(lines[n]), SkillTokenOk))
       \o AcceptedTokens(lines, n + 1)

\* A token of toks that occurs again in another casing.
RepeatsInOtherCase(toks, a) ==
  \E b \in 1..Len(toks) : toks[b] # toks[a] /\ Lower(toks[b]) = Lower(toks[a])

\* The first token of toks equal to tok up to case.
FirstCasing(toks, tok) ==
  toks[SetMin({n \in 1..Len(toks) : Lower(toks[n]) = Lower(tok)})]

\* The positions of the returned list that hold tok up to case.
EntriesFor(tok) == {n \in 1..Len(sk.unique_skills) : Lower(sk.unique_skills[n]) = Lower(tok)}

\* tok is, up to case, a word of the curated vocabulary that the first pass
\* finds in the section as a whole word.
VocabularyFinds(tok) ==
  \E n \in 1..Len(tech_skills) :
    tech_skills[n] = Lower(tok) /\ WholeWordIn(Lower(sk.skills_text), tech_skills[n])

SkReturnedSection == sk.pc = "returned" /\ sk.skills_text # ""

\* C4 as stated: a token that appears more than once in the section with
\* different casing has exactly one entry equal to it up to case in the result,
\* in the casing of its first occurrence in the section.
C4_FirstOccurrenceCasing ==
  SkReturnedSection =>
    LET toks == SectionTokens(Split(sk.skills_text, "\n"), 1)
    IN  \A a \in 1..Len(toks) :
          RepeatsInOtherCase(toks, a) =>
            /\ Cardinality(EntriesFor(toks[a])) = 1
            /\ \A n \in EntriesFor(toks[a]) : sk.unique_skills[n] = FirstCasing(toks, toks[a])

\* C4 as amended: a token that passes the noise filter, on a line that is not
\* a category header, and appears more than once with different casing has
\* exactly one entry equal to it up to case; the entry is the title-cased
\* vocabulary word when the vocabulary pass finds the token as a whole word in
\* the section, and otherwise has the casing of the token's first occurrence.
C4_OneEntryFirstSeenCasing ==
  SkReturnedSection =>
    LET toks == AcceptedTokens(Split(sk.skills_text, "\n"), 1)
    IN  \A a \in 1..Len(toks) :
          RepeatsInOtherCase(toks, a) =>
            /\ Cardinality(EntriesFor(toks[a])) = 1
            /\ \A n \in EntriesFor(toks[a]) :
                 sk.unique_skills[n] =
                   IF VocabularyFinds(toks[a]) THEN Title(Lower(toks[a]))
                   ELSE FirstCasing(toks, toks[a])

\* A section with a token outside the vocabulary repeated in another casing,
\* and one of the vocabulary whose first occurrence is not title-cased.
C4_Witness ==
  /\ SkReturnedSection
  /\ LET toks == AcceptedTokens(Split(sk.skills_text, "\n"), 1)
     IN  /\ \E a \in 1..Len(toks) :
               RepeatsInOtherCase(toks, a) /\ ~VocabularyFinds(toks[a])
         /\ \E a \in 1..Len(toks) :
               /\ RepeatsInOtherCase(toks, a) /\ VocabularyFinds(toks[a])
               /\ FirstCasing(toks, toks[a]) # Title(Lower(toks[a]))

(***************************************************************************)
(* Python's re: backtracking matching of the patterns of the source        *)
(*                                                                         *)
(* A pattern is a sequence of elements: a quantified character class, an   *)
(* ordered alternation of literal strings, or an assertion.  Quantifiers   *)
(* are greedy unless marked lazy; alternatives are tried in order; a       *)
(* choice is kept when the rest of the pattern matches after it.           *)
(***************************************************************************)
Unbounded == 0 - 1

LetterChars == (DOMAIN LowerOf) \cup (DOMAIN UpperOf)

SpaceChars == {" ", "\n", "\t", "\r"}

\* cls{min,max}
ReCls(cls, min, max) ==
  [t |-> "cls", cls |-> cls, min |-> min, max |-> max, lazy |-> FALSE, alts |-> <<>>]

\* cls{min,max}?
ReLazy(cls, min, max) ==
  [t |-> "cls", cls |-> cls, min |-> min, max |-> max, lazy |-> TRUE, alts |-> <<>>]

\* (?:a1|a2|...)
ReAlt(alts) == [t |-> "alt", cls |-> {}, min |-> 0, max |-> 0, lazy |-> FALSE, alts |-> alts]

\* a literal string
ReLit(str) == ReAlt(<<str>>)

\* \b, $ and the lookalikes
ReAssert(kind) == [t |-> kind, cls |-> {}, min |-> 0, max |-> 0, lazy |-> FALSE, alts |-> <<>>]

\* The number of characters from position pos on that belong to e.cls, at most e.max.
ReRun(e, s, pos) ==
  LET bad == {j \in pos..Len(s) : Char(s, j) \notin e.cls}
      run == IF bad = {} THEN Len(s) - pos + 1 ELSE SetMin(bad) - pos
  IN  IF e.max # Unbounded /\ run > e.max THEN e.max ELSE run

\* An assertion at the gap before position pos.
ReHolds(e, s, pos) ==
  CASE e.t = "b" -> WordBoundaryAt(s, pos)
    [] e.t = "end" -> pos = Len(s) + 1 \/ (pos = Len(s) /\ Char(s, pos) = "\n")

RECURSIVE ReOk(_, _, _, _)
\* Elements k.. of the pattern match s from position pos.
ReOk(pat, s, pos, k) ==
  IF k > Len(pat) THEN TRUE
  ELSE LET e == pat[k]
       IN  CASE e.t = "cls" ->
                  \E n \in e.min..ReRun(e, s, pos) : ReOk(pat, s, pos + n, k + 1)
             [] e.t = "alt" ->
                  \E n \in 1..Len(e.alts) :
                    MatchAt(s, e.alts[n], pos) /\ ReOk(pat, s, pos + Len(e.alts[n]), k + 1)
             [] OTHER -> ReHolds(e, s, pos) /\ ReOk(pat, s, pos, k + 1)

RECURSIVE ReEnds(_, _, _, _)
\* The match the backtracking search finds: for each of the elements k.., the
\* position after it.  Defined when ReOk(pat, s, pos, k).
ReEnds(pat, s, pos, k) ==
  IF k > Len(pat) THEN <<>>
  ELSE LET e == pat[k]
       IN  CASE e.t = "cls" ->
                  LET good == {n \in e.min..ReRun(e, s, pos) : ReOk(pat, s, pos + n, k + 1)}
                      n == IF e.lazy THEN SetMin(good)
                           ELSE CHOOSE x \in good : \A y \in good : x >= y
                  IN  <<pos + n>> \o ReEnds(pat, s, pos + n, k + 1)
             [] e.t = "alt" ->
                  LET good == {n \in 1..Len(e.alts) :
                                 /\ MatchAt(s, e.alts[n], pos)
                                 /\ ReOk(pat, s, pos + Len(e.alts[n]), k + 1)}
                      hit == e.alts[SetMin(good)]
                  IN  <<pos + Len(hit)>> \o ReEnds(pat, s, pos + Len(hit), k + 1)
             [] OTHER -> <<pos>> \o ReEnds(pat, s, pos, k + 1)

\* re.search(pat, s) from position from on: the leftmost start of a match, 0 for None.
ReSearchFrom(pat, s, from) ==
  LET starts == {i \in from..(Len(s) + 1) : ReOk(pat, s, i, 1)}
  IN  IF starts = {} THEN 0 ELSE SetMin(starts)

ReSearch(pat, s) == ReSearchFrom(pat, s, 1)

\* The position after the match that starts at start.
ReEnd(pat, s, start) == ReEnds(pat, s, start, 1)[Len(pat)]

\* match.group(0)
ReGroup0(pat, s, start) == SubSeq(s, start, ReEnd(pat, s, start) - 1)

\* The text matched by element k of the pattern (a group of one element).
ReElement(pat, s, start, k) ==
  LET ends == ReEnds(pat, s, start, 1)
  IN  SubSeq(s, IF k = 1 THEN start ELSE ends[k - 1], ends[k] - 1)

RECURSIVE ReFindAll(_, _, _)
\* re.findall(pat, s) for a pattern without groups: the successive
\* non-overlapping matches, leftmost first.
ReFindAll(pat, s, from) ==
  LET start == ReSearchFrom(pat, s, from)
      end == ReEnd(pat, s, start)
  IN  IF start = 0 THEN <<>>
      ELSE <<ReGroup0(pat, s, start)>>
           \o ReFindAll(pat, s, IF end > start THEN end ELSE end + 1)

(***************************************************************************)
(* extract_contact_info                                                    *)
(***************************************************************************)
EmailLocalChars == LetterChars \cup DigitChars \cup {".", "_", "%", "+", "-"}

EmailDomainChars == LetterChars \cup DigitChars \cup {".", "-"}

\* r'\b[A-Za-z0-9._%+-]+@[A-Za-z0-9.-]+\.[A-Za-z]{2,}\b'
email_pattern ==
  <<ReAssert("b"), ReCls(EmailLocalChars, 1, Unbounded), ReLit("@"),
    ReCls(EmailDomainChars, 1, Unbounded), ReLit("."), ReCls(LetterChars, 2, Unbounded),
    ReAssert("b")>>

\* [-.\s]
PhoneSepChars == {"-", "."} \cup SpaceChars

\* phone_patterns, each with the elements that are its groups.
phone_patterns ==
  << [pat |-> <<ReCls({"+"}, 0, 1), ReLit("91"), ReCls(PhoneSepChars, 0, 1),
                ReCls(DigitChars, 5, 5), ReCls(PhoneSepChars, 0, 1), ReCls(DigitChars, 5, 5)>>,
      groups |-> <<4, 6>>],
     [pat |-> <<ReCls({"+"}, 0, 1), ReLit("91"), ReCls(PhoneSepChars, 0, 1),
                ReCls(DigitChars, 4, 4), ReCls(PhoneSepChars, 0, 1), ReCls(DigitChars, 3, 3),
                ReCls(PhoneSepChars, 0, 1), ReCls(DigitChars, 3, 3)>>,
      groups |-> <<4, 6, 8>>],
     [pat |-> <<ReCls({"+"}, 0, 1), ReCls({"1"}, 0, 1), ReCls(PhoneSepChars, 0, 1),
                ReCls({"("}, 0, 1), ReCls(DigitChars, 3, 3), ReCls({")"}, 0, 1),
                ReCls(PhoneSepChars, 0, 1), ReCls(DigitChars, 3, 3),
                ReCls(PhoneSepChars, 0, 1), ReCls(DigitChars, 4, 4)>>,
      groups |-> <<5, 8, 10>>],
     [pat |-> <<ReCls(DigitChars, 10, 10)>>, groups |-> <<1>>],
     [pat |-> <<ReLit("+"), ReCls(DigitChars, 1, 3), ReCls(PhoneSepChars, 0, 1),
                ReCls(DigitChars, 4, 5), ReCls(PhoneSepChars, 0, 1), ReCls(DigitChars, 4, 6)>>,
      groups |-> <<2, 4, 6>>] >>

SlugChars == LetterChars \cup DigitChars \cup {"_", "-"}

\* r'(https?://)?(www\.)?linkedin\.com/in/[A-Za-z0-9_-]+'
linkedin_pattern ==
  <<ReAlt(<<"https://", "http://", "">>), ReAlt(<<"www.", "">>), ReLit("linkedin.com/in/"),
    ReCls(SlugChars, 1, Unbounded)>>

\* r'(https?://)?(www\.)?github\.com/[A-Za-z0-9_-]+'
github_pattern ==
  <<ReAlt(<<"https://", "http://", "">>), ReAlt(<<"www.", "">>), ReLit("github.com/"),
    ReCls(SlugChars, 1, Unbounded)>>

RECURSIVE JoinGroups(_, _, _, _, _)
\* ''.join(match.groups())
JoinGroups(pat, groups, s, start, n) ==
  IF n > Len(groups) THEN ""
  ELSE ReElement(pat, s, start, groups[n]) \o JoinGroups(pat, groups, s, start, n + 1)

RECURSIVE PhoneLoop(_, _)
\* The loop over phone_patterns from pattern n on: the joined groups of the
\* first pattern that matches, None when no pattern matches.
PhoneLoop(text, n) ==
  IF n > Len(phone_patterns) THEN None
  ELSE LET p == phone_patterns[n]
           start == ReSearch(p.pat, text)
       IN  IF start # 0 THEN JoinGroups(p.pat, p.groups, text, start, 1)
           ELSE PhoneLoop(text, n + 1)

\* The email that would be stored if the last match were taken.
LastEmail(emails) == emails[Len(emails)]

\* emails[0]
StoredEmail(emails) == emails[1]

\* The URL stored for a match of a link pattern: match.group(0).
StoredLink(pat, text, start) == ReGroup0(pat, text, start)

CiEnter(text) == [pc |-> "email", text |-> text, contact_info |-> <<>>]

CiEmail(f) ==
  LET emails == ReFindAll(email_pattern, f.text, 1)
  IN  [f EXCEPT !.pc = "phone",
                !.contact_info = IF Len(emails) > 0
                                 THEN ("email" :> StoredEmail(emails)) @@ f.contact_info
                                 ELSE f.contact_info]

CiPhone(f) ==
  LET phone_number == PhoneLoop(f.text, 1)
  IN  [f EXCEPT !.pc = "linkedin",
                !.contact_info = IF phone_number # None
                                 THEN ("phone" :> phone_number) @@ f.contact_info
                                 ELSE f.contact_info]

CiLinkedin(f) ==
  LET start == ReSearch(linkedin_pattern, f.text)
  IN  [f EXCEPT !.pc = "github",
                !.contact_info = IF start # 0
                                 THEN ("linkedin" :> StoredLink(linkedin_pattern, f.text, start))
                                      @@ f.contact_info
                                 ELSE f.contact_info]

CiGithub(f) ==
  LET start == ReSearch(github_pattern, f.text)
  IN  [f EXCEPT !.pc = "returned",
                !.contact_info = IF start # 0
                                 THEN ("github" :> StoredLink(github_pattern, f.text, start))
                                      @@ f.contact_info
                                 ELSE f.contact_info]

CiStep(f) ==
  CASE f.pc = "email" -> CiEmail(f)
    [] f.pc = "phone" -> CiPhone(f)
    [] f.pc = "linkedin" -> CiLinkedin(f)
    [] f.pc = "github" -> CiGithub(f)

RECURSIVE CiRun(_)
CiRun(f) == IF f.pc = "returned" THEN f ELSE CiRun(CiStep(f))

extract_contact_info(text) == CiRun(CiEnter(text)).contact_info

(***************************************************************************)
(* The contact extractor as a state machine                                *)
(***************************************************************************)
MaxContactParts == 2

ContactPartPool ==
  {"a@b.co", "Jane.Doe@x.com.", "bob@d.c", "linkedin.com/in/jane",
   "https://www.github.com/jd", "+91 98765 43210", "(555) 123-4567", "Email:"}

CiOthers == <<fsb, sk, tbl, xp, nm, pr, pdf, edu, blk, parser, calls, runs>>

CiInit ==
  /\ parser = ResumeParser(None)
  /\ calls = <<>> /\ runs = <<>>
  /\ \E parts \in LineSeqs(ContactPartPool, MaxContactParts) : ci = CiEnter(Join(parts, " "))
  /\ fsb = Idle /\ sk = Idle /\ tbl = Idle /\ xp = Idle /\ nm = Idle
  /\ pr = Idle /\ pdf = Idle /\ edu = Idle /\ blk = Idle

ContactEmail ==
  /\ ci.pc = "email"
  /\ ci' = CiEmail(ci)
  /\ UNCHANGED CiOthers

ContactPhone ==
  /\ ci.pc = "phone"
  /\ ci' = CiPhone(ci)
  /\ UNCHANGED CiOthers

ContactLinkedin ==
  /\ ci.pc = "linkedin"
  /\ ci' = CiLinkedin(ci)
  /\ UNCHANGED CiOthers

ContactGithub ==
  /\ ci.pc = "github"
  /\ ci' = CiGithub(ci)
  /\ UNCHANGED CiOthers

CiNext ==
  \/ ContactEmail
  \/ ContactPhone
  \/ ContactLinkedin
  \/ ContactGithub

SpecContact == CiInit /\ [][CiNext]_vars

(***************************************************************************)
(* Properties of the contact extractor                                     *)
(***************************************************************************)
\* The positions of the text at which an email address begins.
EmailStarts(text) == {i \in 1..Len(text) : ReOk(email_pattern, text, i, 1)}

\* C7: after the email pass, a text with an email address has exactly one
\* stored email, the address that occurs first in document order; a text with
\* no email address has no email field.
C7_FirstEmailStored ==
  ci.pc \in {"phone", "linkedin", "github", "returned"} =>
    IF EmailStarts(ci.text) = {}
    THEN "email" \notin DOMAIN ci.contact_info
    ELSE /\ "email" \in DOMAIN ci.contact_info
         /\ ci.contact_info["email"]
              = ReGroup0(email_pattern, ci.text, SetMin(EmailStarts(ci.text)))

\* A text with two different email addresses, parsed to the end.
C7_Witness ==
  /\ ci.pc = "returned"
  /\ \E i, j \in EmailStarts(ci.text) :
       /\ i < j
       /\ ReEnd(email_pattern, ci.text, i) <= j
       /\ ReGroup0(email_pattern, ci.text, i) # ReGroup0(email_pattern, ci.text, j)
       /\ ci.contact_info["email"] = ReGroup0(email_pattern, ci.text, i)

(***************************************************************************)
(* extract_name                                                            *)
(***************************************************************************)
\* lines[:15]
NameScanLines == 15

MinNameLineLen == 3

MinNameWords == 2

MaxNameWords == 4

\* skip_patterns
skip_patterns ==
  << <<ReLit("@")>>,
     <<ReCls({"+"}, 0, 1), ReCls(DigitChars, 10, 10)>>,
     <<ReLit("resume")>>, <<ReLit("cv")>>, <<ReLit("curriculum vitae")>>,
     <<ReLit("software")>>, <<ReLit("engineer")>>, <<ReLit("developer")>>,
     <<ReLit("summary")>>, <<ReLit("contact")>>,
     <<ReLit("skills")>>, <<ReLit("experience")>>, <<ReLit("education")>>,
     <<ReLit("objective")>>, <<ReLit("location")>>,
     <<ReLit("page "), ReCls(DigitChars, 1, Unbounded)>>,
     <<ReLit("table "), ReCls(DigitChars, 1, Unbounded)>>,
     <<ReLit("headers:")>>,
     <<ReLit("row "), ReCls(DigitChars, 1, Unbounded), ReLit(":")>>,
     <<ReLit("col"), ReCls(DigitChars, 1, Unbounded)>> >>

\* any(re.search(pattern, line.lower()) for pattern in skip_patterns)
MatchesSkipPattern(line) ==
  \E n \in 1..Len(skip_patterns) : ReSearch(skip_patterns[n], Lower(line)) # 0

\* str.isalpha()
IsAlphaString(s) == Len(s) > 0 /\ \A i \in 1..Len(s) : IsAlpha(Char(s, i))

\* word[0].isupper() and word.replace('-', '').replace("'", "").isalpha()
IsNameWord(word) ==
  /\ IsUpper(Char(word, 1))
  /\ IsAlphaString(Replace(Replace(word, "-", ""), "'", ""))

is_valid_name(name) ==
  LET words == SplitWords(name)
  IN  /\ name # ""
      /\ Len(words) >= MinNameWords
      /\ \A n \in 1..Len(words) : IsNameWord(words[n])

NameLabels == {"name", "candidate name", "full name"}

\* The "Name: John Doe" branch: the name after the colon, None when the
\* branch does not return.
NameField(line) ==
  LET parts == Split1(line, ":")
  IN  IF /\ Contains(line, ":")
         /\ Lower(Strip(parts[1])) \in NameLabels
         /\ is_valid_name(Strip(parts[2]))
      THEN Strip(parts[2])
      ELSE None

\* The line is made of 2-4 capitalized alphabetic words.
IsCapitalizedWords(line) ==
  LET words == SplitWords(line)
  IN  /\ MinNameWords <= Len(words) /\ Len(words) <= MaxNameWords
      /\ \A n \in 1..Len(words) : IsNameWord(words[n])

\* The lines the heuristics would look at if the whole text were scanned.
ScannedLinesAll(lines) == lines

\* lines[:15]
ScannedLines(lines) ==
  SubSeq(lines, 1, IF Len(lines) < NameScanLines THEN Len(lines) ELSE NameScanLines)

\* nlp is None when the spaCy model is not installed, else the entities
\* (label, text) the model finds in the text.
NmEnter(text, nlp) ==
  [pc |-> "scan", text |-> text, nlp |-> nlp,
   lines |-> ScannedLines(Split(text, "\n")), i |-> 0, name |-> None, via |-> "none"]

NmLine(f) == Strip(f.lines[f.i + 1])

NmAtLine(f) == f.pc = "scan" /\ f.i < Len(f.lines)

NmIsSkipped(f) ==
  \/ NmLine(f) = "" \/ Len(NmLine(f)) < MinNameLineLen
  \/ MatchesSkipPattern(NmLine(f))

NmSkip(f) == [f EXCEPT !.i = f.i + 1]

NmNameField(f) == [f EXCEPT !.pc = "returned", !.name = NameField(NmLine(f)), !.via = "rule"]

NmCapitalized(f) == [f EXCEPT !.pc = "returned", !.name = NmLine(f), !.via = "rule"]

NmNoName(f) == [f EXCEPT !.i = f.i + 1]

NmLoopEnd(f) == [f EXCEPT !.pc = "nlp"]

\* The first PERSON entity of at least two words; 0 when there is none.
FirstPerson(ents) ==
  LET hits == {n \in 1..Len(ents) :
                 ents[n].label = "PERSON" /\ Len(SplitWords(ents[n].text)) >= MinNameWords}
  IN  IF hits = {} THEN 0 ELSE SetMin(hits)

NmFallback(f) ==
  IF f.nlp # None /\ FirstPerson(f.nlp) # 0
  THEN [f EXCEPT !.pc = "returned", !.name = f.nlp[FirstPerson(f.nlp)].text, !.via = "nlp"]
  ELSE [f EXCEPT !.pc = "returned"]

NmStep(f) ==
  CASE f.pc = "nlp" -> NmFallback(f)
    [] f.pc = "scan" /\ f.i >= Len(f.lines) -> NmLoopEnd(f)
    [] NmAtLine(f) /\ NmIsSkipped(f) -> NmSkip(f)
    [] NmAtLine(f) /\ ~NmIsSkipped(f) /\ NameField(NmLine(f)) # None -> NmNameField(f)
    [] NmAtLine(f) /\ ~NmIsSkipped(f) /\ NameField(NmLine(f)) = None
         /\ IsCapitalizedWords(NmLine(f)) -> NmCapitalized(f)
    [] OTHER -> NmNoName(f)

RECURSIVE NmRun(_)
NmRun(f) == IF f.pc = "returned" THEN f ELSE NmRun(NmStep(f))

extract_name(text, nlp) == NmRun(NmEnter(text, nlp)).name

(***************************************************************************)
(* The name extractor as a state machine                                   *)
(***************************************************************************)
MaxNameLines == 2

\* The numbers of blank lines before the lines of the pool.
NameOffsets == {0, 13, 14, 15}

NameLinePool ==
  {"Jane Doe", "Name: Ann Lee", "Email: jane@x.com", "Senior Software Engineer",
   "Mary-Ann O'Neil", "john smith"}

NlpPool ==
  {None,
   <<[label |-> "ORG", text |-> "Acme Corp"], [label |-> "PERSON", text |-> "Jane"],
     [label |-> "PERSON", text |-> "Bob Ray"]>>}

NmOthers == <<fsb, sk, tbl, xp, ci, pr, pdf, edu, blk, parser, calls, runs>>

NmInit ==
  /\ parser = ResumeParser(None)
  /\ calls = <<>> /\ runs = <<>>
  /\ \E k \in NameOffsets, ls \in LineSeqs(NameLinePool, MaxNameLines), nlp \in NlpPool :
       nm = NmEnter(Join([n \in 1..k |-> ""] \o ls, "\n"), nlp)
  /\ fsb = Idle /\ sk = Idle /\ tbl = Idle /\ xp = Idle /\ ci = Idle
  /\ pr = Idle /\ pdf = Idle /\ edu = Idle /\ blk = Idle

NameSkipLine ==
  /\ NmAtLine(nm) /\ NmIsSkipped(nm)
  /\ nm' = NmSkip(nm)
  /\ UNCHANGED NmOthers

NameFromField ==
  /\ NmAtLine(nm) /\ ~NmIsSkipped(nm)
  /\ NameField(NmLine(nm)) # None
  /\ nm' = NmNameField(nm)
  /\ UNCHANGED NmOthers

NameFromCapitalized ==
  /\ NmAtLine(nm) /\ ~NmIsSkipped(nm)
  /\ NameField(NmLine(nm)) = None
  /\ IsCapitalizedWords(NmLine(nm))
  /\ nm' = NmCapitalized(nm)
  /\ UNCHANGED NmOthers

NameNotOnLine ==
  /\ NmAtLine(nm) /\ ~NmIsSkipped(nm)
  /\ NameField(NmLine(nm)) = None
  /\ ~IsCapitalizedWords(NmLine(nm))
  /\ nm' = NmNoName(nm)
  /\ UNCHANGED NmOthers

NameLoopEnd ==
  /\ nm.pc = "scan" /\ nm.i >= Len(nm.lines)
  /\ nm' = NmLoopEnd(nm)
  /\ UNCHANGED NmOthers

NameFallback ==
  /\ nm.pc = "nlp"
  /\ nm' = NmFallback(nm)
  /\ UNCHANGED NmOthers

NmNext ==
  \/ NameSkipLine
  \/ NameFromField
  \/ NameFromCapitalized
  \/ NameNotOnLine
  \/ NameLoopEnd
  \/ NameFallback

SpecName == NmInit /\ [][NmNext]_vars

(***************************************************************************)
(* Properties of the name extractor                                        *)
(***************************************************************************)
\* The lines of the text, as str.split('\n') gives them.
NmTextLines == Split(nm.text, "\n")

\* The zero-based numbers of the lines of the text that hold name.
NmLinesHolding(name) == {n \in 0..(Len(NmTextLines) - 1) : Contains(NmTextLines[n + 1], name)}

\* C8: a name returned by the line heuristics is held by one of the first 15
\* lines, a line that matches no skip pattern and so holds no '@'.
C8_NameFromEarlyCleanLine ==
  (nm.pc = "returned" /\ nm.via = "rule") =>
    /\ nm.name # None
    /\ \E n \in NmLinesHolding(nm.name) :
         /\ n < NameScanLines
         /\ ~MatchesSkipPattern(NmTextLines[n + 1])
         /\ ~Contains(NmTextLines[n + 1], "@")

\* The heuristics return a name from the fifteenth line, after a line with an
\* '@' was passed over.
C8_Witness ==
  /\ nm.pc = "returned" /\ nm.via = "rule"
  /\ NmLinesHolding(nm.name) = {NameScanLines - 1}
  /\ \E n \in 0..(NameScanLines - 2) : Contains(NmTextLines[n + 1], "@")

(***************************************************************************)
(* extract_tables_from_blocks                                              *)
(*                                                                         *)
(* blocks holds the lines of the page's text blocks in reading order,      *)
(* each with the text of its spans and the x and y of its bounding box.    *)
(***************************************************************************)
RowTolerance == 5

MinTableRowCells == 2

\* abs(y_pos - current_y)
AbsDiff(a, b) == IF a >= b THEN a - b ELSE b - a

RECURSIVE InsertByX(_, _)
\* cell put into a row sorted by x, after the cells whose x is not larger.
InsertByX(row, cell) ==
  IF Len(row) = 0 THEN <<cell>>
  ELSE IF row[Len(row)].x <= cell.x THEN Append(row, cell)
  ELSE Append(InsertByX(SubSeq(row, 1, Len(row) - 1), cell), row[Len(row)])

RECURSIVE SortedByX(_)
\* sorted(current_row, key=lambda x: x['x'])
SortedByX(row) ==
  IF Len(row) = 0 THEN <<>>
  ELSE InsertByX(SortedByX(SubSeq(row, 1, Len(row) - 1)), row[Len(row)])

BlockCell(line) == [text |-> Strip(line.text), x |-> line.x, y |-> line.y]

RECURSIVE GroupRows(_, _, _, _, _)
\* The loop over the lines from line n on: the rows, each sorted by x.
\* current_y is None exactly as long as current_row is empty.
GroupRows(lines, n, current_y, current_row, table_candidates) ==
  IF n > Len(lines)
  THEN IF Len(current_row) > 0 THEN Append(table_candidates, SortedByX(current_row))
       ELSE table_candidates
  ELSE IF Strip(lines[n].text) = ""
  THEN GroupRows(lines, n + 1, current_y, current_row, table_candidates)
  ELSE IF Len(current_row) = 0 \/ AbsDiff(lines[n].y, current_y) < RowTolerance
  THEN GroupRows(lines, n + 1, lines[n].y, Append(current_row, BlockCell(lines[n])),
                 table_candidates)
  ELSE GroupRows(lines, n + 1, lines[n].y, <<BlockCell(lines[n])>>,
                 IF Len(current_row) > 0 THEN Append(table_candidates, SortedByX(current_row))
                 ELSE table_candidates)

RECURSIVE RowsText(_)
\* The rows of at least two cells, each as a line of cells joined by " | ".
RowsText(rows) ==
  IF Len(rows) = 0 THEN ""
  ELSE (IF Len(rows[1]) >= MinTableRowCells
        THEN Join([k \in 1..Len(rows[1]) |-> rows[1][k].text], " | ") \o "\n"
        ELSE "")
       \o RowsText(Tail(rows))

\* An empty blocks is the case "not blocks".
extract_tables_from_blocks(blocks) ==
  IF blocks = <<>> THEN ""
  ELSE RowsText(GroupRows(blocks, 1, 0, <<>>, <<>>))

(***************************************************************************)
(* extract_text_from_pdf                                                   *)
(*                                                                         *)
(* A document is what the three libraries make of the file: for each page  *)
(* the text and the tables pdfplumber extracts, the text and the blocks    *)
(* PyMuPDF extracts, the text PyPDF2 extracts; and for each method the     *)
(* point at which the library raises, if it does.  A method that fails at  *)
(* n raises after n of its pages were processed: at 0 when the file is     *)
(* opened (or pdfplumber is imported), at the number of pages when the     *)
(* document is closed.                                                     *)
(***************************************************************************)
Methods == <<"pdfplumber", "PyMuPDF", "PyPDF2">>

PageHeader(page_num) == "\n--- Page " \o IntToStr(page_num) \o " ---\n"

TableHeader(table_num, page_num) ==
  "\n--- Table " \o IntToStr(table_num) \o " on Page " \o IntToStr(page_num) \o " ---\n"

StructuredHeader(page_num) == "\n--- Structured Content Page " \o IntToStr(page_num) \o " ---\n"

RECURSIVE TablesText(_, _, _)
\* The inner loop over the tables of a page, from table n on.
TablesText(tables, page_num, n) ==
  IF n > Len(tables) THEN ""
  ELSE TableHeader(n, page_num) \o process_table_data(tables[n])
       \o TablesText(tables, page_num, n + 1)

\* The record appended after the loop over the tables of a page: the loop
\* variables hold the last table.
TableRecord(tables, page_num) ==
  [page |-> page_num, table_num |-> Len(tables), data |-> tables[Len(tables)],
   processed_text |-> process_table_data(tables[Len(tables)])]

\* if text.strip()
Usable(text) == Strip(text) # ""

PdfEnter(doc) ==
  [pc |-> "running", method |-> 1, doc |-> doc, page |-> 0, text |-> "",
   tables_data |-> <<>>, tried |-> <<1>>, outcome |-> <<>>]

PdfFailsHere(f) == f.doc.fail[f.method].at = f.page

PdfHasPage(f) == f.page < Len(f.doc.pages)

\* The body of the loop of method 1 for the next page.
PdfPlumberPage(f) ==
  LET page_num == f.page + 1
      p == f.doc.pages[page_num]
      with_text == IF p.plumber # "" THEN f.text \o PageHeader(page_num) \o p.plumber
                   ELSE f.text
  IN  [f EXCEPT !.page = page_num,
                !.text = IF Len(p.tables) > 0
                         THEN with_text \o TablesText(p.tables, page_num, 1)
                         ELSE with_text,
                !.tables_data = IF Len(p.tables) > 0
                                THEN Append(f.tables_data, TableRecord(p.tables, page_num))
                                ELSE f.tables_data]

\* The body of the loop of method 2 for the next page.
PdfMuPage(f) ==
  LET page_num == f.page + 1
      p == f.doc.pages[page_num]
      with_text == IF p.mu # "" THEN f.text \o PageHeader(page_num) \o p.mu ELSE f.text
      table_text == extract_tables_from_blocks(p.blocks)
  IN  [f EXCEPT !.page = page_num,
                !.text = IF table_text # ""
                         THEN with_text \o StructuredHeader(page_num) \o table_text
                         ELSE with_text]

\* The body of the loop of method 3 for the next page.
PdfPyPdfPage(f) ==
  LET p == f.doc.pages[f.page + 1]
  IN  [f EXCEPT !.page = f.page + 1,
                !.text = IF p.pypdf # "" THEN f.text \o p.pypdf ELSE f.text]

\* What follows a method that did not return: the next method, or the
\* return at the end of the function after method 3.  outcome keeps, for each
\* method that ended, whether it raised and the text it left.
PdfProceed(f, raised) ==
  LET ended == Append(f.outcome, [raised |-> raised, text |-> f.text])
  IN  IF f.method < Len(Methods)
      THEN [f EXCEPT !.method = f.method + 1, !.page = 0, !.outcome = ended,
                     !.tried = Append(f.tried, f.method + 1)]
      ELSE [f EXCEPT !.pc = "returned", !.outcome = ended]

\* An exception that leaves extract_text_from_pdf.
PdfPropagate(f) ==
  [f EXCEPT !.pc = "raised", !.outcome = Append(f.outcome, [raised |-> TRUE, text |-> f.text])]

\* except ImportError / except Exception as e: print(...)
PdfCatch(f) == PdfProceed(f, TRUE)

\* The end of the loop of method 1 or 2: if text.strip(): return text, tables_data
PdfLoopEnd(f) ==
  IF Usable(f.text)
  THEN [f EXCEPT !.pc = "returned",
                 !.outcome = Append(f.outcome, [raised |-> FALSE, text |-> f.text])]
  ELSE PdfProceed(f, FALSE)

\* The end of method 3: return text, tables_data
PdfLastEnd(f) == PdfProceed(f, FALSE)

PdfRunning(f) == f.pc = "running"

PdfStep(f) ==
  CASE PdfFailsHere(f) -> PdfCatch(f)
    [] ~PdfFailsHere(f) /\ PdfHasPage(f) /\ f.method = 1 -> PdfPlumberPage(f)
    [] ~PdfFailsHere(f) /\ PdfHasPage(f) /\ f.method = 2 -> PdfMuPage(f)
    [] ~PdfFailsHere(f) /\ PdfHasPage(f) /\ f.method = 3 -> PdfPyPdfPage(f)
    [] ~PdfFailsHere(f) /\ ~PdfHasPage(f) /\ f.method < Len(Methods) -> PdfLoopEnd(f)
    [] OTHER -> PdfLastEnd(f)

RECURSIVE PdfRun(_)
PdfRun(f) == IF PdfRunning(f) THEN PdfRun(PdfStep(f)) ELSE f

\* text, tables_data
extract_text_from_pdf(doc) ==
  LET f == PdfRun(PdfEnter(doc)) IN <<f.text, f.tables_data>>

(***************************************************************************)
(* The text extractor as a state machine                                   *)
(***************************************************************************)
MaxPages == 2

SkillsTable == <<<<"Skill", "Level">>, <<"Go", "5">>>>

JobsTable == <<<<"Company">>, <<"Acme">>>>

\* A scanned page, a page of running text whose layout pdfplumber does not
\* read, a page with one table and a page with two.
PagePool ==
  {[plumber |-> "", tables |-> <<>>, mu |-> "", blocks |-> <<>>, pypdf |-> " "],
   [plumber |-> "", tables |-> <<>>, mu |-> "Jane Doe",
    blocks |-> <<[text |-> "Go", x |-> 60, y |-> 12], [text |-> "Skill ", x |-> 10, y |-> 10],
                 [text |-> "Jane", x |-> 10, y |-> 40]>>,
    pypdf |-> "Jane Doe"],
   [plumber |-> "Skills", tables |-> <<SkillsTable>>, mu |-> "Skills", blocks |-> <<>>,
    pypdf |-> "Skills"],
   [plumber |-> "", tables |-> <<SkillsTable, JobsTable>>, mu |-> " ", blocks |-> <<>>,
    pypdf |-> ""]}

\* The points at which a method can raise on a document of n pages.
NoFailure == [at |-> 0 - 1, exc |-> "none"]

FailPoints(n) ==
  {NoFailure} \cup {[at |-> k, exc |-> "Exception"] : k \in 0..n}

PlumberFailPoints(n) == FailPoints(n) \cup {[at |-> 0, exc |-> "ImportError"]}

PdfOthers == <<fsb, sk, tbl, xp, ci, nm, pr, edu, blk, parser, calls, runs>>

PdfInit ==
  /\ parser = ResumeParser(None)
  /\ calls = <<>> /\ runs = <<>>
  /\ \E pages \in LineSeqs(PagePool, MaxPages) :
       \E f1 \in PlumberFailPoints(Len(pages)), f2 \in FailPoints(Len(pages)),
          f3 \in FailPoints(Len(pages)) :
         pdf = PdfEnter([pages |-> pages, fail |-> <<f1, f2, f3>>])
  /\ fsb = Idle /\ sk = Idle /\ tbl = Idle /\ xp = Idle /\ ci = Idle /\ nm = Idle
  /\ pr = Idle /\ edu = Idle /\ blk = Idle

PlumberPage ==
  /\ PdfRunning(pdf) /\ pdf.method = 1
  /\ ~PdfFailsHere(pdf) /\ PdfHasPage(pdf)
  /\ pdf' = PdfPlumberPage(pdf)
  /\ UNCHANGED PdfOthers

MuPage ==
  /\ PdfRunning(pdf) /\ pdf.method = 2
  /\ ~PdfFailsHere(pdf) /\ PdfHasPage(pdf)
  /\ pdf' = PdfMuPage(pdf)
  /\ UNCHANGED PdfOthers

PyPdfPage ==
  /\ PdfRunning(pdf) /\ pdf.method = 3
  /\ ~PdfFailsHere(pdf) /\ PdfHasPage(pdf)
  /\ pdf' = PdfPyPdfPage(pdf)
  /\ UNCHANGED PdfOthers

MethodRaises ==
  /\ PdfRunning(pdf) /\ PdfFailsHere(pdf)
  /\ pdf' = PdfCatch(pdf)
  /\ UNCHANGED PdfOthers

MethodLoopEnd ==
  /\ PdfRunning(pdf) /\ pdf.method < Len(Methods)
  /\ ~PdfFailsHere(pdf) /\ ~PdfHasPage(pdf)
  /\ pdf' = PdfLoopEnd(pdf)
  /\ UNCHANGED PdfOthers

LastMethodEnd ==
  /\ PdfRunning(pdf) /\ pdf.method = Len(Methods)
  /\ ~PdfFailsHere(pdf) /\ ~PdfHasPage(pdf)
  /\ pdf' = PdfLastEnd(pdf)
  /\ UNCHANGED PdfOthers

PdfNext ==
  \/ PlumberPage
  \/ MuPage
  \/ PyPdfPage
  \/ MethodRaises
  \/ MethodLoopEnd
  \/ LastMethodEnd

SpecPdf == PdfInit /\ [][PdfNext]_vars

(***************************************************************************)
(* Properties of the text extractor                                        *)
(***************************************************************************)
\* C10: extract_text_from_pdf never raises; the methods are attempted in the
\* order pdfplumber, PyMuPDF, PyPDF2; a method that raises is followed by the
\* next one; a method is attempted only after the one before it raised or
\* ended with text that is blank after trimming; and the chain ends before
\* PyPDF2 only with text that is not blank.
C10_OrderedFallbackChain ==
  /\ pdf.pc # "raised"
  /\ Len(pdf.tried) \in 1..Len(Methods)
  /\ \A k \in 1..Len(pdf.tried) : pdf.tried[k] = k
  /\ \A k \in 1..Len(pdf.outcome) :
       /\ k < Len(pdf.tried) => (pdf.outcome[k].raised \/ Strip(pdf.outcome[k].text) = "")
       /\ (pdf.outcome[k].raised /\ k < Len(Methods)) => k < Len(pdf.tried)
  /\ pdf.pc = "returned" =>
       /\ Len(pdf.outcome) = Len(pdf.tried)
       /\ \/ Len(pdf.tried) = Len(Methods)
          \/ /\ ~pdf.outcome[Len(pdf.outcome)].raised
             /\ Strip(pdf.outcome[Len(pdf.outcome)].text) # ""

\* pdfplumber raises after a page, PyMuPDF ends with blank text, PyPDF2 ends
\* the chain.
C10_Witness ==
  /\ pdf.pc = "returned"
  /\ pdf.tried = <<1, 2, 3>>
  /\ pdf.outcome[1].raised /\ pdf.doc.fail[1].at > 0
  /\ ~pdf.outcome[2].raised /\ Strip(pdf.outcome[2].text) = ""

(***************************************************************************)
(* More of Python's re: groups, alternation of patterns, complements       *)
(***************************************************************************)
\* The characters of the texts: printable ASCII, line break and tab.
TextChars ==
  LetterChars \cup DigitChars \cup SpaceChars
  \cup {"!", "\"", "#", "$", "%", "&", "'", "(", ")", "*", "+", ",", "-", ".", "/", ":", ";",
        "<", "=", ">", "?", "@", "[", "\\", "]", "^", "_", "{", "|", "}", "~"}

\* [^...]
AnyCharBut(excluded) == TextChars \ excluded

\* \w
WordChars == LetterChars \cup DigitChars \cup {"_"}

UpperChars == DOMAIN LowerOf

LowerChars == DOMAIN UpperOf

\* A group made of the elements k1..k2 of the pattern: match.group(n).
ReSpan(pat, s, start, k1, k2) ==
  LET ends == ReEnds(pat, s, start, 1)
  IN  SubSeq(s, IF k1 = 1 THEN start ELSE ends[k1 - 1], ends[k2] - 1)

\* re.search of p1|p2|...: the leftmost start at which one of the patterns
\* matches and the first pattern that matches there; start 0 for None.
ReSearchAny(pats, s) ==
  LET starts == {i \in 1..(Len(s) + 1) : \E n \in 1..Len(pats) : ReOk(pats[n], s, i, 1)}
      start == SetMin(starts)
  IN  IF starts = {} THEN [start |-> 0, n |-> 0]
      ELSE [start |-> start,
            n |-> SetMin({n \in 1..Len(pats) : ReOk(pats[n], s, start, 1)})]

(***************************************************************************)
(* is_job_header, is_project_header                                        *)
(***************************************************************************)
MinJobHeaderLen == 5

MaxProjectHeaderLen == 100

YearDigits == 4

job_indicators ==
  <<"software engineer", "developer", "analyst", "manager", "intern", "consultant",
    "specialist", "architect", "lead", "senior", "junior", "associate", "trainee">>

company_suffixes ==
  <<"ltd", "inc", "corp", "llc", "pvt", "limited", "company", "solutions", "technologies",
    "systems", "group", "labs", "enterprises">>

\* any(word in s for word in words)
AnyIn(words, s) == \E n \in 1..Len(words) : Contains(s, words[n])

\* r'\|\s*\d{4}|\(\d{4}'
job_date_pattern ==
  << <<ReLit("|"), ReCls(SpaceChars, 0, Unbounded), ReCls(DigitChars, YearDigits, YearDigits)>>,
     <<ReLit("("), ReCls(DigitChars, YearDigits, YearDigits)>> >>

\* r',\s*[A-Z][a-z]+'
location_pattern ==
  <<ReLit(","), ReCls(SpaceChars, 0, Unbounded), ReCls(UpperChars, 1, 1),
    ReCls(LowerChars, 1, Unbounded)>>

is_job_header(line) ==
  IF Len(Strip(line)) < MinJobHeaderLen THEN FALSE
  ELSE LET line_lower == Lower(line)
           has_date_pattern == ReSearchAny(job_date_pattern, line).start # 0
           has_job_title == AnyIn(job_indicators, line_lower)
           has_company_suffix == AnyIn(company_suffixes, line_lower)
           has_location == ReSearch(location_pattern, line) # 0
       IN  (has_job_title \/ has_company_suffix) /\ (has_date_pattern \/ has_location)

project_indicators == <<"project:", "project ", "application", "system", "platform", "tool">>

\* r'\(\w+\s+\d{4}.*?\)'
project_date_pattern ==
  <<ReLit("("), ReCls(WordChars, 1, Unbounded), ReCls(SpaceChars, 1, Unbounded),
    ReCls(DigitChars, YearDigits, YearDigits), ReLazy(AnyCharBut({"\n"}), 0, Unbounded),
    ReLit(")")>>

is_project_header(line) ==
  LET has_project_indicator == AnyIn(project_indicators, Lower(line))
      has_date_pattern == ReSearch(project_date_pattern, line) # 0
  IN  has_project_indicator /\ (has_date_pattern \/ Len(line) < MaxProjectHeaderLen)

(***************************************************************************)
(* parse_job_header, parse_project_header                                  *)
(***************************************************************************)
MaxHeaderLookahead == 3

RECURSIVE CombinedText(_, _, _, _)
\* The loop that joins the header with the lines after it, from offset i on.
CombinedText(combined_text, lines, index, i) ==
  LET bound == IF MaxHeaderLookahead < Len(lines) - index THEN MaxHeaderLookahead
               ELSE Len(lines) - index
      next_line == Strip(lines[index + i + 1])
  IN  IF i >= bound THEN combined_text
      ELSE IF next_line # "" /\ ~StartsWith(next_line, BULLET) /\ ~is_project_header(next_line)
      THEN CombinedText(combined_text \o " " \o next_line, lines, index, i + 1)
      ELSE combined_text

position_indicators ==
  <<"software engineer", "developer", "analyst", "manager", "intern", "consultant",
    "specialist">>

\* [A-Za-z\s&,.&-]
CompanyChars == LetterChars \cup SpaceChars \cup {"&", ",", ".", "-"}

\* company_patterns, each with the last element of its group 1 (the group
\* begins with the pattern).
company_patterns ==
  << [pat |-> <<ReCls(UpperChars, 1, 1), ReCls(CompanyChars, 1, Unbounded),
                ReAlt(<<"Ltd", "Inc", "Corp", "LLC", "Pvt", "Limited", "Company", "Solutions",
                        "Technologies", "Systems", "Group", "Labs", "Enterprises">>)>>,
      first |-> 1, last |-> 3],
     [pat |-> <<ReCls(UpperChars, 1, 1), ReCls(CompanyChars, 1, Unbounded), ReLit(","),
                ReCls(SpaceChars, 0, Unbounded), ReCls(UpperChars, 1, 1),
                ReCls(LowerChars, 1, Unbounded), ReCls(SpaceChars, 0, Unbounded), ReLit("|")>>,
      first |-> 1, last |-> 2] >>

\* duration_patterns.  The text searched holds no line break, so of
\* (?:\s*$|\s*\n) the first alternative is the one that can match; the second
\* pattern is written as its two alternatives.
duration_patterns ==
  << << [pat |-> <<ReLit("|"), ReCls(SpaceChars, 0, Unbounded),
                   ReLazy(AnyCharBut({"|"}), 1, Unbounded), ReCls(SpaceChars, 0, Unbounded),
                   ReAssert("end")>>,
         first |-> 3, last |-> 3] >>,
     << [pat |-> <<ReCls(DigitChars, YearDigits, YearDigits), ReCls(SpaceChars, 0, Unbounded),
                   ReLit("-"), ReCls(SpaceChars, 0, Unbounded),
                   ReCls(DigitChars, YearDigits, YearDigits)>>,
         first |-> 1, last |-> 5],
        [pat |-> <<ReCls(DigitChars, YearDigits, YearDigits), ReCls(SpaceChars, 0, Unbounded),
                   ReLit("-"), ReCls(SpaceChars, 0, Unbounded), ReLit("Present")>>,
         first |-> 1, last |-> 5] >>,
     << [pat |-> <<ReCls(UpperChars, 1, 1), ReCls(LowerChars, 1, Unbounded),
                   ReCls(SpaceChars, 1, Unbounded), ReCls(DigitChars, 2, 2),
                   ReCls(SpaceChars, 0, Unbounded), ReLit("-"), ReCls(SpaceChars, 0, Unbounded),
                   ReCls(UpperChars, 1, 1), ReCls(LowerChars, 1, Unbounded),
                   ReCls(SpaceChars, 1, Unbounded), ReCls(DigitChars, 2, 2)>>,
         first |-> 1, last |-> 11] >> >>

\* Group 1 of re.search of the alternatives alts in s, stripped; None when
\* there is no match.
SearchGroup(alts, s) ==
  LET hit == ReSearchAny([n \in 1..Len(alts) |-> alts[n].pat], s)
  IN  IF hit.start = 0 THEN None
      ELSE Strip(ReSpan(alts[hit.n].pat, s, hit.start, alts[hit.n].first, alts[hit.n].last))

RECURSIVE FirstGroup(_, _, _)
\* The loop over a list of patterns: the group of the first pattern that
\* matches, None when no pattern does.
FirstGroup(patterns, s, n) ==
  IF n > Len(patterns) THEN None
  ELSE IF SearchGroup(patterns[n], s) # None THEN SearchGroup(patterns[n], s)
  ELSE FirstGroup(patterns, s, n + 1)

\* The first indicator found in the line, title-cased; None when there is none.
JobPosition(line) ==
  LET hits == {n \in 1..Len(position_indicators) : Contains(Lower(line), position_indicators[n])}
  IN  IF hits = {} THEN None ELSE Title(position_indicators[SetMin(hits)])

\* A dictionary with the key set when the value is not None.
WithKey(dict, key, value) == IF value = None THEN dict ELSE (key :> value) @@ dict

parse_job_header(line, lines, index) ==
  LET combined_text == CombinedText(line, lines, index, 1)
      company == FirstGroup([n \in 1..Len(company_patterns) |-> <<company_patterns[n]>>],
                            combined_text, 1)
      duration == FirstGroup(duration_patterns, combined_text, 1)
  IN  WithKey(WithKey(WithKey("raw_header" :> line, "position", JobPosition(line)),
                      "company", company),
              "duration", duration)

\* r'Project:\s*([^(]+)' with re.match
project_name_pattern ==
  <<ReLit("Project:"), ReCls(SpaceChars, 0, Unbounded), ReCls(AnyCharBut({"("}), 1, Unbounded)>>

\* r'([^(]+)' with re.match
project_fallback_pattern == <<ReCls(AnyCharBut({"("}), 1, Unbounded)>>

\* r'\(([^)]+)\)'
project_duration_pattern == <<ReLit("("), ReCls(AnyCharBut({")"}), 1, Unbounded), ReLit(")")>>

ProjectName(line) ==
  IF ReOk(project_name_pattern, line, 1, 1)
  THEN Strip(ReSpan(project_name_pattern, line, 1, 3, 3))
  ELSE IF ReOk(project_fallback_pattern, line, 1, 1)
  THEN Strip(ReSpan(project_fallback_pattern, line, 1, 1, 1))
  ELSE None

ProjectDuration(line) ==
  LET start == ReSearch(project_duration_pattern, line)
  IN  IF start = 0 THEN None ELSE Strip(ReSpan(project_duration_pattern, line, start, 2, 2))

parse_project_header(line) ==
  WithKey(WithKey("raw_header" :> line, "name", ProjectName(line)),
          "duration", ProjectDuration(line))

(***************************************************************************)
(* extract_experience_from_tables                                          *)
(***************************************************************************)
\* A dictionary that is None or empty: both are false in a test.
NoDict == <<>>

\* The words that map a key of a table row to a field of the job.
job_field_words ==
  << [field |-> "position", words |-> <<"position", "role", "title", "designation">>],
     [field |-> "company", words |-> <<"company", "organization", "employer">>],
     [field |-> "duration", words |-> <<"duration", "period", "from", "to", "date">>],
     [field |-> "description", words |-> <<"description", "responsibilities", "duties">>] >>

\* The field of the first entry of the table whose words hold one that
\* occurs in the key; None when there is none.
FieldOfKey(table, key) ==
  LET hits == {n \in 1..Len(table) : AnyIn(table[n].words, key)}
  IN  IF hits = {} THEN None ELSE table[SetMin(hits)].field

\* any(d.values())
AnyValue(d) == \E k \in DOMAIN d : d[k] # ""

\* d[key] = value
SetKey(d, key, value) == (key :> value) @@ d

RECURSIVE RowParts(_, _, _, _)
\* The loop over the parts of a row from part n on.
RowParts(table, parts, n, current) ==
  IF n > Len(parts) THEN current
  ELSE IF ~Contains(parts[n], ":") THEN RowParts(table, parts, n + 1, current)
  ELSE LET kv == Split1(parts[n], ":")
           key == Lower(Strip(kv[1]))
           value == Strip(kv[2])
           field == FieldOfKey(table, key)
       IN  RowParts(table, parts, n + 1,
                    IF field = None THEN current ELSE SetKey(current, field, value))

\* 'row' in line.lower() and ':' in line
IsTableRowLine(line) == Contains(Lower(line), "row") /\ Contains(line, ":")

RECURSIVE TableEntries(_, _, _, _, _)
\* The loop over the lines from line n on, and the append after it.
TableEntries(table, lines, n, current, entries) ==
  LET line == Strip(lines[n])
      flushed == current # NoDict /\ AnyValue(current)
  IN  IF n > Len(lines)
      THEN IF flushed THEN Append(entries, current) ELSE entries
      ELSE IF line = "" \/ ~IsTableRowLine(line)
      THEN TableEntries(table, lines, n + 1, current, entries)
      ELSE TableEntries(table, lines, n + 1,
                        RowParts(table, Split(line, "|"), 1,
                                 IF flushed THEN NoDict ELSE current),
                        IF flushed THEN Append(entries, current) ELSE entries)

extract_experience_from_tables(text) ==
  TableEntries(job_field_words, Split(text, "\n"), 1, NoDict, <<>>)

(***************************************************************************)
(* extract_experience                                                      *)
(***************************************************************************)
MinDescriptionLen == 20

BulletMarkers == {BULLET, "-", "*"}

\* line.startswith(bullet) or line.startswith('-') or line.startswith('*')
IsBulletLine(line) == Len(line) > 0 /\ Char(line, 1) \in BulletMarkers

\* re.sub(r'^[<bullet>\-\*]\s*', '', line)
BulletText(line) == LStrip(SubSeq(line, 2, Len(line)))

\* What the two header tests of the loop body say about a line.
HeaderKind(line) ==
  IF line # "" /\ is_job_header(line) THEN "job"
  ELSE IF line # "" /\ is_project_header(line) THEN "project"
  ELSE "none"

\* The frame after the section was cut out of the text.
XpEnter(text) ==
  [pc |-> "start", text |-> text,
   experience_text |-> extract_section_content(text, "experience", find_section_boundaries(text)),
   mode |-> "none", lines |-> <<>>, headers |-> <<>>, i |-> 0, current_job |-> NoDict,
   current_project |-> NoDict, project_description |-> <<>>, experiences |-> <<>>]

XpEmptySection(f) == [f EXCEPT !.pc = "returned"]

XpFromTables(f) ==
  [f EXCEPT !.pc = "returned", !.mode = "table",
            !.experiences = extract_experience_from_tables(f.experience_text)]

XpBeginLines(f) ==
  LET lines == Split(f.experience_text, "\n")
  IN  [f EXCEPT !.pc = "lines", !.mode = "lines", !.lines = lines,
                !.headers = [k \in 1..Len(lines) |-> HeaderKind(Strip(lines[k]))]]

\* The job with the project in progress appended, when the project has a
\* description ("Save previous project if exists").
JobWithProject(current_job, current_project, project_description) ==
  IF current_project # NoDict /\ Len(project_description) > 0 /\ current_job # NoDict
  THEN LET project == SetKey(current_project, "description", Join(project_description, " "))
           projects == IF "projects" \in DOMAIN current_job THEN current_job["projects"]
                       ELSE <<>>
       IN  SetKey(current_job, "projects", Append(projects, project))
  ELSE current_job

\* The experiences with the job in progress appended ("Save previous job if exists").
WithJob(experiences, job) == IF job # NoDict THEN Append(experiences, job) ELSE experiences

XpLine(f) == Strip(f.lines[f.i + 1])

XpAtLine(f) == f.pc = "lines" /\ f.i < Len(f.lines)

\* Which branch of the loop body the line takes; f.headers keeps HeaderKind
\* of each line, computed once.
XpLineKind(f) ==
  LET line == XpLine(f)
  IN  CASE line = "" -> "blank"
        [] line # "" /\ f.headers[f.i + 1] # "none" -> f.headers[f.i + 1]
        [] line # "" /\ f.headers[f.i + 1] = "none" /\ IsBulletLine(line) -> "bullet"
        [] OTHER -> IF f.current_project # NoDict /\ Len(line) > MinDescriptionLen
                    THEN "description" ELSE "other"

XpBlank(f) == [f EXCEPT !.i = f.i + 1]

XpJobHeader(f) ==
  [f EXCEPT !.experiences =
              WithJob(f.experiences,
                      JobWithProject(f.current_job, f.current_project, f.project_description)),
            !.current_job = parse_job_header(XpLine(f), f.lines, f.i),
            !.current_project = NoDict,
            !.project_description = <<>>,
            !.i = f.i + 1]

XpProjectHeader(f) ==
  [f EXCEPT !.current_job =
              JobWithProject(f.current_job, f.current_project, f.project_description),
            !.current_project = parse_project_header(XpLine(f)),
            !.project_description = <<>>,
            !.i = f.i + 1]

XpBullet(f) ==
  [f EXCEPT !.project_description =
              IF BulletText(XpLine(f)) # "" THEN Append(f.project_description, BulletText(XpLine(f)))
              ELSE f.project_description,
            !.i = f.i + 1]

XpDescription(f) ==
  [f EXCEPT !.project_description = Append(f.project_description, XpLine(f)), !.i = f.i + 1]

XpOther(f) == [f EXCEPT !.i = f.i + 1]

\* "Save the last project and job" and the return.
XpReturn(f) ==
  [f EXCEPT !.pc = "returned",
            !.experiences =
              WithJob(f.experiences,
                      JobWithProject(f.current_job, f.current_project, f.project_description))]

XpStep(f) ==
  CASE f.pc = "start" /\ f.experience_text = "" -> XpEmptySection(f)
    [] f.pc = "start" /\ f.experience_text # ""
         /\ extract_experience_from_tables(f.experience_text) # <<>> -> XpFromTables(f)
    [] f.pc = "start" /\ f.experience_text # ""
         /\ extract_experience_from_tables(f.experience_text) = <<>> -> XpBeginLines(f)
    [] XpAtLine(f) /\ XpLineKind(f) = "blank" -> XpBlank(f)
    [] XpAtLine(f) /\ XpLineKind(f) = "job" -> XpJobHeader(f)
    [] XpAtLine(f) /\ XpLineKind(f) = "project" -> XpProjectHeader(f)
    [] XpAtLine(f) /\ XpLineKind(f) = "bullet" -> XpBullet(f)
    [] XpAtLine(f) /\ XpLineKind(f) = "description" -> XpDescription(f)
    [] XpAtLine(f) /\ XpLineKind(f) = "other" -> XpOther(f)
    [] OTHER -> XpReturn(f)

RECURSIVE XpRun(_)
XpRun(f) == IF f.pc = "returned" THEN f ELSE XpRun(XpStep(f))

extract_experience(text) == XpRun(XpEnter(text)).experiences

(***************************************************************************)
(* The experience parser as a state machine                                *)
(***************************************************************************)
MaxExpLines == 3

MaxBullets == 2

ExpLinePool ==
  {"Acme Corp, Bangalore (2020-2022)", "Inventory System (Jan 2021)", "~ Built REST API", "~",
   "Reduced the latency of the API", "", "Row 1: Company: Acme | Role: Dev"}

ExpPrefixPool == {<<"Experience">>, <<"Projects", "Experience">>}

ExpJobPool == {"Acme Corp, Bangalore (2020-2022)"}

ExpMiddlePool == {<<>>, <<"Senior Engineer">>}

ExpProjectPool == {"Project: Inventory System (Jan 2021)", "Inventory Tool (Jan 2021)"}

ExpBulletPool ==
  {"~ Built REST API", "~ Reduced latency", "~", "- Fixed bugs", "- Built a billing system"}

\* The texts with a section of one job, one project and its bullets.
ExpNestedTexts ==
  {Join(pre \o <<job>> \o mid \o <<project>> \o bullets, "\n") :
     pre \in ExpPrefixPool, job \in ExpJobPool, mid \in ExpMiddlePool,
     project \in ExpProjectPool, bullets \in LineSeqs(ExpBulletPool, MaxBullets) \ {<<>>}}

\* The texts with a section of any lines of the pool.
ExpFreeTexts == {Join(<<"Experience">> \o ls, "\n") : ls \in LineSeqs(ExpLinePool, MaxExpLines)}

XpOthers == <<fsb, sk, tbl, ci, nm, pr, pdf, edu, blk, parser, calls, runs>>

XpInit ==
  /\ parser = ResumeParser(None)
  /\ calls = <<>> /\ runs = <<>>
  /\ \E text \in ExpNestedTexts \cup ExpFreeTexts : xp = Called(text)
  /\ fsb = Idle /\ sk = Idle /\ tbl = Idle /\ ci = Idle /\ nm = Idle
  /\ pr = Idle /\ pdf = Idle /\ edu = Idle /\ blk = Idle

ExpSection ==
  /\ xp.pc = "called"
  /\ xp' = XpEnter(xp.text)
  /\ UNCHANGED XpOthers

ExpEmptySection ==
  /\ xp.pc = "start" /\ xp.experience_text = ""
  /\ xp' = XpEmptySection(xp)
  /\ UNCHANGED XpOthers

ExpFromTables ==
  /\ xp.pc = "start" /\ xp.experience_text # ""
  /\ extract_experience_from_tables(xp.experience_text) # <<>>
  /\ xp' = XpFromTables(xp)
  /\ UNCHANGED XpOthers

ExpBeginLines ==
  /\ xp.pc = "start" /\ xp.experience_text # ""
  /\ extract_experience_from_tables(xp.experience_text) = <<>>
  /\ xp' = XpBeginLines(xp)
  /\ UNCHANGED XpOthers

ExpBlankLine ==
  /\ XpAtLine(xp) /\ XpLineKind(xp) = "blank"
  /\ xp' = XpBlank(xp)
  /\ UNCHANGED XpOthers

ExpJobHeader ==
  /\ XpAtLine(xp) /\ XpLineKind(xp) = "job"
  /\ xp' = XpJobHeader(xp)
  /\ UNCHANGED XpOthers

ExpProjectHeader ==
  /\ XpAtLine(xp) /\ XpLineKind(xp) = "project"
  /\ xp' = XpProjectHeader(xp)
  /\ UNCHANGED XpOthers

ExpBullet ==
  /\ XpAtLine(xp) /\ XpLineKind(xp) = "bullet"
  /\ xp' = XpBullet(xp)
  /\ UNCHANGED XpOthers

ExpDescription ==
  /\ XpAtLine(xp) /\ XpLineKind(xp) = "description"
  /\ xp' = XpDescription(xp)
  /\ UNCHANGED XpOthers

ExpOtherLine ==
  /\ XpAtLine(xp) /\ XpLineKind(xp) = "other"
  /\ xp' = XpOther(xp)
  /\ UNCHANGED XpOthers

ExpReturn ==
  /\ xp.pc = "lines" /\ xp.i >= Len(xp.lines)
  /\ xp' = XpReturn(xp)
  /\ UNCHANGED XpOthers

XpNext ==
  \/ ExpSection
  \/ ExpEmptySection
  \/ ExpFromTables
  \/ ExpBeginLines
  \/ ExpBlankLine
  \/ ExpJobHeader
  \/ ExpProjectHeader
  \/ ExpBullet
  \/ ExpDescription
  \/ ExpOtherLine
  \/ ExpReturn

SpecExp == XpInit /\ [][XpNext]_vars

(***************************************************************************)
(* Properties of the experience parser                                     *)
(***************************************************************************)
\* The line is neither a job header nor a project header.
IsNoHeader(line) == ~is_job_header(line) /\ ~is_project_header(line)

\* The section is one job header, lines that are no headers, one project
\* header at line p and then one or more bullet lines that are no headers.
IsNestedSection(lines, p) ==
  /\ 1 < p /\ p < Len(lines)
  /\ is_job_header(Strip(lines[1]))
  /\ \A k \in 2..(p - 1) : Strip(lines[k]) # "" /\ IsNoHeader(Strip(lines[k]))
  /\ is_project_header(Strip(lines[p])) /\ ~is_job_header(Strip(lines[p]))
  /\ \A k \in (p + 1)..Len(lines) : IsBulletLine(Strip(lines[k])) /\ IsNoHeader(Strip(lines[k]))

\* The texts of the bullet lines after line p that have a text, without
\* their markers.
BulletTexts(lines, p) ==
  LET texts == [k \in 1..(Len(lines) - p) |-> BulletText(Strip(lines[p + k]))]
  IN  SelectSeq(texts, LAMBDA t : t # "")

\* C6: in line mode, a section of one job header, lines that are no headers,
\* one project header and then one or more bullet lines gives exactly one
\* job with exactly one project, whose description is the texts of the
\* bullets joined by single spaces in source order.
C6_OneJobOneProject ==
  (xp.pc = "returned" /\ xp.mode = "lines") =>
    \A p \in 1..Len(xp.lines) :
      IsNestedSection(xp.lines, p) =>
        /\ Len(xp.experiences) = 1
        /\ "projects" \in DOMAIN xp.experiences[1]
        /\ Len(xp.experiences[1]["projects"]) = 1
        /\ xp.experiences[1]["projects"][1]["description"]
             = Join(BulletTexts(xp.lines, p), " ")

(***************************************************************************)
(* extract_education_from_tables, extract_education                        *)
(***************************************************************************)
education_field_words ==
  << [field |-> "degree", words |-> <<"degree", "qualification", "course">>],
     [field |-> "institution", words |-> <<"institution", "university", "college", "school">>],
     [field |-> "field", words |-> <<"field", "specialization", "major", "stream">>],
     [field |-> "year", words |-> <<"year", "graduation", "completion">>],
     [field |-> "cgpa", words |-> <<"cgpa", "gpa", "percentage", "marks">>] >>

extract_education_from_tables(text) ==
  TableEntries(education_field_words, Split(text, "\n"), 1, NoDict, <<>>)

MinEducationLineLen == 3

\* institution_patterns, each with the elements of its group 1.
institution_patterns ==
  << << [pat |-> <<ReCls(UpperChars, 1, 1), ReCls(CompanyChars, 1, Unbounded),
                   ReAlt(<<"University", "College", "Institute", "School">>)>>,
         first |-> 1, last |-> 3] >>,
     << [pat |-> <<ReCls(UpperChars, 1, 1), ReCls(CompanyChars, 1, Unbounded), ReLit(","),
                   ReCls(SpaceChars, 0, Unbounded), ReCls(LetterChars, 1, Unbounded)>>,
         first |-> 1, last |-> 2] >> >>

\* \s*
Spaces == ReCls(SpaceChars, 0, Unbounded)

\* \.?
OptionalDot == ReCls({"."}, 0, 1)

\* ([^,\n]+)
FieldGroup == ReCls(AnyCharBut({",", "\n"}), 1, Unbounded)

\* degree_patterns: the pattern, the element that is its group 1 (0 when it
\* has none) and the degree.
degree_patterns ==
  << [pat |-> <<ReLit("master"), ReCls({"s"}, 0, 1), ReCls(SpaceChars, 1, Unbounded),
                ReLit("in"), ReCls(SpaceChars, 1, Unbounded), FieldGroup>>,
      group |-> 6, degree |-> "Masters"],
     [pat |-> <<ReLit("master"), Spaces, ReLit("of"), Spaces, FieldGroup>>,
      group |-> 5, degree |-> "Master of"],
     [pat |-> <<ReLit("bachelor"), Spaces, ReLit("of"), Spaces, FieldGroup>>,
      group |-> 5, degree |-> "Bachelor of"],
     [pat |-> <<ReLit("b"), OptionalDot, Spaces, ReLit("sc"), OptionalDot, Spaces, ReLit("in"),
                Spaces, FieldGroup>>,
      group |-> 9, degree |-> "B.Sc"],
     [pat |-> <<ReLit("b"), OptionalDot, Spaces, ReLit("tech"), Spaces, ReLit("in"), Spaces,
                FieldGroup>>,
      group |-> 8, degree |-> "B.Tech"],
     [pat |-> <<ReLit("b"), OptionalDot, Spaces, ReLit("e"), OptionalDot, Spaces, ReLit("in"),
                Spaces, FieldGroup>>,
      group |-> 9, degree |-> "B.E"],
     [pat |-> <<ReLit("m"), OptionalDot, Spaces, ReLit("sc"), OptionalDot, Spaces, ReLit("in"),
                Spaces, FieldGroup>>,
      group |-> 9, degree |-> "M.Sc"],
     [pat |-> <<ReLit("m"), OptionalDot, Spaces, ReLit("tech"), Spaces, ReLit("in"), Spaces,
                FieldGroup>>,
      group |-> 8, degree |-> "M.Tech"],
     [pat |-> <<ReLit("mba")>>, group |-> 0, degree |-> "MBA"],
     [pat |-> <<ReLit("diploma"), Spaces, ReLit("in"), Spaces, FieldGroup>>,
      group |-> 5, degree |-> "Diploma"] >>

\* r'(\d{4})'
year_pattern == <<ReCls(DigitChars, YearDigits, YearDigits)>>

\* r'(cgpa|gpa)[\s:]*(\d+\.?\d*)'
cgpa_pattern ==
  <<ReAlt(<<"cgpa", "gpa">>), ReCls(SpaceChars \cup {":"}, 0, Unbounded),
    ReCls(DigitChars, 1, Unbounded), OptionalDot, ReCls(DigitChars, 0, Unbounded)>>

\* r'(\d+\.?\d*)%'
percentage_pattern ==
  <<ReCls(DigitChars, 1, Unbounded), OptionalDot, ReCls(DigitChars, 0, Unbounded), ReLit("%")>>

\* The entry that an institution line starts.
NewEducation(institution, line) ==
  [institution |-> institution, degree |-> "", field |-> "", year |-> "", cgpa |-> "",
   raw_text |-> line]

\* The loop over degree_patterns: the entry with the degree, and the field
\* when the pattern has a group, of the first pattern that matches.
WithDegree(entry, line) ==
  LET hits == {n \in 1..Len(degree_patterns) : ReSearch(degree_patterns[n].pat, Lower(line)) # 0}
      p == degree_patterns[SetMin(hits)]
      start == ReSearch(p.pat, Lower(line))
  IN  IF hits = {} THEN entry
      ELSE IF p.group = 0 THEN [entry EXCEPT !.degree = p.degree]
      ELSE [entry EXCEPT !.degree = p.degree,
                         !.field = Strip(ReSpan(p.pat, Lower(line), start, p.group, p.group))]

WithYear(entry, line) ==
  LET start == ReSearch(year_pattern, line)
  IN  IF start = 0 THEN entry ELSE [entry EXCEPT !.year = ReGroup0(year_pattern, line, start)]

WithCgpa(entry, line) ==
  LET start == ReSearch(cgpa_pattern, Lower(line))
  IN  IF start = 0 THEN entry
      ELSE [entry EXCEPT !.cgpa = Upper(ReSpan(cgpa_pattern, Lower(line), start, 1, 1)) \o ": "
                                   \o ReSpan(cgpa_pattern, Lower(line), start, 3, 5)]

WithPercentage(entry, line) ==
  LET start == ReSearch(percentage_pattern, line)
  IN  IF start = 0 THEN entry
      ELSE [entry EXCEPT !.cgpa = "Percentage: "
                                   \o ReSpan(percentage_pattern, line, start, 1, 3) \o "%"]

\* The rules applied to a line that follows an institution line.
EducationDetails(entry, line) ==
  WithPercentage(WithCgpa(WithYear(WithDegree(entry, line), line), line), line)

RECURSIVE EducationLines(_, _, _, _)
\* The loop over the lines from line n on, and the append after it.
EducationLines(lines, n, current_education, education) ==
  LET line == Strip(lines[n])
      institution == FirstGroup(institution_patterns, line, 1)
  IN  IF n > Len(lines)
      THEN IF current_education # NoDict THEN Append(education, current_education)
           ELSE education
      ELSE IF line = "" \/ Len(line) < MinEducationLineLen
      THEN EducationLines(lines, n + 1, current_education, education)
      ELSE IF institution # None
      THEN EducationLines(lines, n + 1, NewEducation(institution, line),
                          IF current_education # NoDict
                          THEN Append(education, current_education) ELSE education)
      ELSE IF current_education # NoDict
      THEN EducationLines(lines, n + 1, EducationDetails(current_education, line), education)
      ELSE EducationLines(lines, n + 1, current_education, education)

extract_education(text) ==
  LET education_text ==
        extract_section_content(text, "education", find_section_boundaries(text))
      table_education == extract_education_from_tables(education_text)
  IN  IF education_text = "" THEN <<>>
      ELSE IF table_education # <<>> THEN table_education
      ELSE EducationLines(Split(education_text, "\n"), 1, NoDict, <<>>)

(***************************************************************************)
(* extract_projects, extract_achievements                                  *)
(***************************************************************************)
MaxProjectNameLineLen == 100

MinAchievementLen == 10

RECURSIVE ProjectLines(_, _, _, _)
\* The loop over the lines from line n on, and the append after it.
ProjectLines(lines, n, current_project, projects) ==
  LET line == Strip(lines[n])
      parts == Split1(line, ":")
  IN  IF n > Len(lines)
      THEN IF current_project # NoDict THEN Append(projects, current_project) ELSE projects
      ELSE IF line = "" THEN ProjectLines(lines, n + 1, current_project, projects)
      ELSE IF Contains(line, ":") /\ Len(line) < MaxProjectNameLineLen
      THEN ProjectLines(lines, n + 1,
                        [name |-> Strip(parts[1]), description |-> Strip(parts[2]),
                         technologies |-> <<>>],
                        IF current_project # NoDict THEN Append(projects, current_project)
                        ELSE projects)
      ELSE IF current_project # NoDict
      THEN ProjectLines(lines, n + 1,
                        [current_project EXCEPT
                           !.description = IF current_project.description # ""
                                           THEN current_project.description \o " " \o line
                                           ELSE line],
                        projects)
      ELSE ProjectLines(lines, n + 1, current_project, projects)

extract_projects(text) ==
  LET projects_text == extract_section_content(text, "projects", find_section_boundaries(text))
  IN  IF projects_text = "" THEN <<>>
      ELSE ProjectLines(Split(projects_text, "\n"), 1, NoDict, <<>>)

\* re.sub(r'^[<bullet>\-\*]\s*', '', line)
WithoutBullet(line) == IF IsBulletLine(line) THEN BulletText(line) ELSE line

RECURSIVE AchievementLines(_, _)
AchievementLines(lines, n) ==
  LET line == Strip(lines[n])
  IN  IF n > Len(lines) THEN <<>>
      ELSE (IF Len(line) > MinAchievementLen /\ WithoutBullet(line) # ""
            THEN <<WithoutBullet(line)>> ELSE <<>>)
           \o AchievementLines(lines, n + 1)

extract_achievements(text) ==
  LET achievements_text ==
        extract_section_content(text, "achievements", find_section_boundaries(text))
  IN  IF achievements_text = "" THEN <<>>
      ELSE AchievementLines(Split(achievements_text, "\n"), 1)

(***************************************************************************)
(* parse_resume                                                            *)
(***************************************************************************)
\* file_path.lower().endswith('.pdf')
IsPdfPath(file_path) == EndsWith(Lower(file_path), ".pdf")

\* `not text.strip()` (mutated form: only the empty text counts as blank)
IsBlankTextExact(text) == text = ""

\* `not text.strip()`
IsBlankText(text) == Strip(text) = ""

ErrorResult == [error |-> "Could not extract text from file"]

\* The entity fields of parsed_data, in the order in which the dictionary
\* display evaluates them.
EntityFields ==
  <<"name", "contact_info", "experience", "education", "skills", "projects", "achievements">>

\* The call that fills an entity field; extract_name reads self.nlp.
EntityParser(field, text) ==
  CASE field = "name" -> extract_name(text, parser.nlp)
    [] field = "contact_info" -> extract_contact_info(text)
    [] field = "experience" -> extract_experience(text)
    [] field = "education" -> extract_education(text)
    [] field = "skills" -> extract_skills(text)
    [] field = "projects" -> extract_projects(text)
    [] field = "achievements" -> extract_achievements(text)

\* The frame on entry.  A file is a path, whether open() succeeds on it, what
\* read() returns, the document the PDF libraries see, and the clock at the
\* time of the call.
PrEnter(file) ==
  [pc |-> "extract", file |-> file, tables_data |-> <<>>, text |-> "",
   ran |-> <<>>, parsed_data |-> NoDict, result |-> NoDict]

PrReadPdf(f) ==
  LET extracted == extract_text_from_pdf(f.file.doc)
  IN  [f EXCEPT !.text = extracted[1], !.tables_data = extracted[2], !.pc = "check"]

PrReadText(f) == [f EXCEPT !.text = f.file.content, !.pc = "check"]

\* open() raises and nothing in parse_resume catches it.
PrOpenRaises(f) == [f EXCEPT !.pc = "raised"]

PrBlank(f) == [f EXCEPT !.result = ErrorResult, !.pc = "returned"]

PrNotBlank(f) == [f EXCEPT !.pc = "entities"]

\* The next entity field of the dictionary display.
PrNextField(f) == EntityFields[Len(f.ran) + 1]

PrEntity(f) ==
  LET field == PrNextField(f)
  IN  [f EXCEPT !.parsed_data = SetKey(@, field, EntityParser(field, f.text)),
                !.ran = Append(@, field)]

PrReturn(f) ==
  [f EXCEPT !.result =
              SetKey(SetKey(SetKey(SetKey(f.parsed_data,
                "tables_detected", Len(f.tables_data)),
                "tables_data", IF f.tables_data # <<>> THEN f.tables_data ELSE None),
                "raw_text", f.text),
                "parsed_date", f.file.now),
            !.pc = "returned"]

PrStep(f) ==
  IF f.pc = "extract"
  THEN IF IsPdfPath(f.file.path) THEN PrReadPdf(f)
       ELSE IF f.file.readable THEN PrReadText(f) ELSE PrOpenRaises(f)
  ELSE IF f.pc = "check" THEN IF IsBlankText(f.text) THEN PrBlank(f) ELSE PrNotBlank(f)
  ELSE IF Len(f.ran) < Len(EntityFields) THEN PrEntity(f)
  ELSE PrReturn(f)

RECURSIVE PrRun(_)
PrRun(f) == IF f.pc \in {"returned", "raised"} THEN f ELSE PrRun(PrStep(f))

parse_resume(file) == PrRun(PrEnter(file)).result

(***************************************************************************)
(* The parser's entry point as a state machine                             *)
(***************************************************************************)
MaxResumeLines == 2

ScenarioSkillsLine == "Skills: Python, Docker, AWS"

ScenarioEducationLine == "Education: Bachelor of Technology in Computer Science, XYZ University, 2019"

ResumeLinePool == {" ", "Jane Doe", ScenarioSkillsLine, ScenarioEducationLine, "Education"}

Now == "2024-01-01T00:00:00"

NoDoc == [pages |-> <<>>, fail |-> <<NoFailure, NoFailure, NoFailure>>]

TextFile(content) ==
  [path |-> "resume.txt", readable |-> TRUE, content |-> content, doc |-> NoDoc, now |-> Now]

PdfFile(pages) ==
  [path |-> "Resume.PDF", readable |-> TRUE, content |-> "",
   doc |-> [pages |-> pages, fail |-> <<NoFailure, NoFailure, NoFailure>>], now |-> Now]

MissingFile ==
  [path |-> "missing.txt", readable |-> FALSE, content |-> "", doc |-> NoDoc, now |-> Now]

FilePool ==
  {TextFile(Join(lines, "\n")) : lines \in LineSeqs(ResumeLinePool, MaxResumeLines)}
    \cup {TextFile("\n\t \n"), MissingFile}
    \cup {PdfFile(<<page>>) : page \in PagePool}

PrOthers == <<fsb, sk, tbl, xp, ci, nm, pdf, edu, blk, parser, calls, runs>>

PrInit ==
  /\ \E nlp \in NlpPool : parser = ResumeParser(nlp)
  /\ calls = <<>> /\ runs = <<>>
  /\ \E file \in FilePool : pr = PrEnter(file)
  /\ fsb = Idle /\ sk = Idle /\ tbl = Idle /\ xp = Idle /\ ci = Idle /\ nm = Idle
  /\ pdf = Idle /\ edu = Idle /\ blk = Idle

ParseReadPdf ==
  /\ pr.pc = "extract" /\ IsPdfPath(pr.file.path)
  /\ pr' = PrReadPdf(pr)
  /\ UNCHANGED PrOthers

ParseReadText ==
  /\ pr.pc = "extract" /\ ~IsPdfPath(pr.file.path) /\ pr.file.readable
  /\ pr' = PrReadText(pr)
  /\ UNCHANGED PrOthers

ParseOpenRaises ==
  /\ pr.pc = "extract" /\ ~IsPdfPath(pr.file.path) /\ ~pr.file.readable
  /\ pr' = PrOpenRaises(pr)
  /\ UNCHANGED PrOthers

ParseBlank ==
  /\ pr.pc = "check" /\ IsBlankText(pr.text)
  /\ pr' = PrBlank(pr)
  /\ UNCHANGED PrOthers

ParseNotBlank ==
  /\ pr.pc = "check" /\ ~IsBlankText(pr.text)
  /\ pr' = PrNotBlank(pr)
  /\ UNCHANGED PrOthers

ParseEntity ==
  /\ pr.pc = "entities" /\ Len(pr.ran) < Len(EntityFields)
  /\ pr' = PrEntity(pr)
  /\ UNCHANGED PrOthers

ParseReturn ==
  /\ pr.pc = "entities" /\ Len(pr.ran) = Len(EntityFields)
  /\ pr' = PrReturn(pr)
  /\ UNCHANGED PrOthers

PrNext ==
  \/ ParseReadPdf
  \/ ParseReadText
  \/ ParseOpenRaises
  \/ ParseBlank
  \/ ParseNotBlank
  \/ ParseEntity
  \/ ParseReturn

SpecParse == PrInit /\ [][PrNext]_vars

(***************************************************************************)
(* Properties of the entry point                                           *)
(***************************************************************************)
\* True once the text of the file has been extracted.
PrExtracted == pr.pc \in {"check", "entities", "returned"}

\* C1: whenever the extracted text is blank after trimming, no entity parser
\* is run, and the result that parse_resume returns is the error
\* 'Could not extract text from file', with none of the entity fields.
C1_BlankTextIsError ==
  (PrExtracted /\ Strip(pr.text) = "") =>
    /\ pr.ran = <<>>
    /\ pr.pc \in {"check", "returned"}
    /\ pr.pc = "returned" =>
         /\ "error" \in DOMAIN pr.result
         /\ pr.result.error = "Could not extract text from file"
         /\ \A n \in 1..Len(EntityFields) : EntityFields[n] \notin DOMAIN pr.result

\* C1 (witness): parse_resume has returned on a file whose text is not empty
\* but blank after trimming.
C1_Witness ==
  /\ pr.pc = "returned"
  /\ pr.text # "" /\ Strip(pr.text) = ""
  /\ pr.result = ErrorResult

\* The document of the end-to-end scenario.
ScenarioText == ScenarioSkillsLine \o "\n" \o ScenarioEducationLine

\* C9: parsing the plain-text document whose lines are ScenarioSkillsLine and
\* ScenarioEducationLine yields a skills list that starts with Python, Docker, Aws and
\* exactly one education entry, whose field is 'Computer Science', whose
\* institution contains 'XYZ University' and whose year is '2019'.
C9_SkillsAndEducationScenario ==
  (pr.pc = "returned" /\ ~IsPdfPath(pr.file.path) /\ pr.text = ScenarioText) =>
    /\ Len(pr.result.skills) >= 3
    /\ SubSeq(pr.result.skills, 1, 3) = <<"Python", "Docker", "Aws">>
    /\ Len(pr.result.education) = 1
    /\ pr.result.education[1].field = "Computer Science"
    /\ Contains(pr.result.education[1].institution, "XYZ University")
    /\ pr.result.education[1].year = "2019"

(***************************************************************************)
(* More properties of the text extractor                                   *)
(***************************************************************************)
\* True when every method that was attempted ended by raising.
PdfAllRaised ==
  /\ Len(pdf.outcome) = Len(Methods)
  /\ \A k \in 1..Len(Methods) : pdf.outcome[k].raised

\* C11: if every method raises before completing, at whatever page it fails,
\* extract_text_from_pdf returns the empty text and an empty table list.
C11_AllFailReturnsEmpty ==
  (pdf.pc = "returned" /\ PdfAllRaised) => (pdf.text = "" /\ pdf.tables_data = <<>>)

RECURSIVE TablesExtracted(_, _)
\* The number of tables that extract_tables() gives on the first n pages.
TablesExtracted(pages, n) ==
  IF n = 0 THEN 0 ELSE TablesExtracted(pages, n - 1) + Len(pages[n].tables)

\* C12: when the table-aware method (pdfplumber) has run over all the pages
\* and its text is returned, the number of table records returned equals the
\* number of tables extracted over all the pages.
C12_OneRecordPerTable ==
  (pdf.pc = "returned" /\ Len(pdf.tried) = 1) =>
    Len(pdf.tables_data) = TablesExtracted(pdf.doc.pages, Len(pdf.doc.pages))

(***************************************************************************)
(* More properties of the contact extractor                                *)
(***************************************************************************)
HasScheme(url) == StartsWith(url, "http://") \/ StartsWith(url, "https://")

\* The link fields that extract_contact_info has stored.
StoredLinkFields == {"linkedin", "github"} \cap DOMAIN ci.contact_info

\* C13: every linkedin/github value that extract_contact_info stores begins
\* with a scheme: a URL that the text gives without a scheme is stored with
\* 'https://' in front of it, a URL matched with a scheme is stored verbatim.
C13_StoredLinkHasScheme ==
  ci.pc = "returned" =>
    \A field \in StoredLinkFields :
      /\ HasScheme(ci.contact_info[field])
      /\ \/ Contains(ci.text, ci.contact_info[field])
         \/ /\ StartsWith(ci.contact_info[field], "https://")
            /\ Contains(ci.text, SubSeq(ci.contact_info[field], Len("https://") + 1,
                                        Len(ci.contact_info[field])))

(***************************************************************************)
(* More properties of the entry point                                      *)
(***************************************************************************)
\* The fields that are filled from a section of the text.
SectionFields == {"experience", "education", "skills", "projects", "achievements"}

\* The keys of the dictionary that parse_resume returns for a text that is not
\* blank.
ResultFields ==
  {EntityFields[n] : n \in 1..Len(EntityFields)}
    \cup {"tables_detected", "tables_data", "raw_text", "parsed_date"}

\* The section kinds that find_section_boundaries detects in the text of the
\* call.
PrDetected == DOMAIN find_section_boundaries(pr.text)

\* C14: for a text that is not blank, parse_resume runs every entity parser
\* and returns every field; each of experience, education, skills, projects
\* and achievements whose section kind is not detected is the empty list.
C14_MissingSectionIsEmptyList ==
  (PrExtracted /\ ~IsBlankText(pr.text)) =>
    /\ \A field \in SectionFields :
         (field \in DOMAIN pr.parsed_data /\ field \notin PrDetected) =>
           pr.parsed_data[field] = <<>>
    /\ pr.pc = "returned" =>
         /\ pr.ran = EntityFields
         /\ DOMAIN pr.result = ResultFields
         /\ \A field \in SectionFields \ PrDetected : pr.result[field] = <<>>

\* C14 (witness): parse_resume has returned for a text in which one section
\* kind is detected and gives a non-empty field while another is not detected.
C14_Witness ==
  /\ pr.pc = "returned" /\ ~IsBlankText(pr.text)
  /\ "error" \notin DOMAIN pr.result
  /\ "skills" \in PrDetected /\ pr.result.skills # <<>>
  /\ "education" \notin PrDetected /\ pr.result.education = <<>>

(***************************************************************************)
(* The segmenter run again on the same text, between other operations      *)
(***************************************************************************)
MaxIdemLines == 2

MaxReruns == 1

IdemLinePool == {"Skills", "Headers: Skills | Level", "Education", LongHeaderLine}

IdemInit ==
  /\ parser = ResumeParser(None)
  /\ calls = <<>> /\ runs = <<>>
  /\ \E ls \in LineSeqs(IdemLinePool, MaxIdemLines) : fsb = FsbEnter(Join(ls, "\n"))
  /\ sk = Idle /\ tbl = Idle /\ xp = Idle /\ ci = Idle /\ nm = Idle
  /\ pr = Idle /\ pdf = Idle /\ edu = Idle /\ blk = Idle

\* find_section_boundaries has returned and is called again on the same text.
SegmentAgain ==
  /\ fsb.pc = "returned" /\ Len(runs) < MaxReruns
  /\ runs' = Append(runs, fsb.sections)
  /\ fsb' = FsbEnter(fsb.text)
  /\ UNCHANGED <<sk, tbl, xp, ci, nm, pr, pdf, edu, blk, parser, calls>>

\* Other methods of the same instance run on the text: extract_skills between
\* two runs of the segmenter, extract_contact_info in the middle of a run,
\* when the scan for a kind is about to start.
OtherSkills ==
  /\ sk = Idle /\ fsb.pc = "returned"
  /\ sk' = SkRun(SkEnter(fsb.text))
  /\ UNCHANGED <<fsb, tbl, xp, ci, nm, pr, pdf, edu, blk, parser, calls, runs>>

OtherContact ==
  /\ ci = Idle /\ fsb.pc = "scan" /\ fsb.i = 0 /\ fsb.k \in 2..Len(SectionKinds)
  /\ ci' = CiRun(CiEnter(fsb.text))
  /\ UNCHANGED <<fsb, sk, tbl, xp, nm, pr, pdf, edu, blk, parser, calls, runs>>

IdemNext ==
  \/ ScanLongLine
  \/ ScanTableHeaderLine
  \/ ScanPlainLine
  \/ ScanNextKind
  \/ ScanReturn
  \/ SegmentAgain
  \/ OtherSkills
  \/ OtherContact

SpecIdem == IdemInit /\ [][IdemNext]_vars

\* C15: every run of find_section_boundaries on a text returns the same
\* boundary mapping, whatever other operations of the parser run in between.
C15_SegmenterIdempotent ==
  /\ \A j, k \in 1..Len(runs) : runs[j] = runs[k]
  /\ fsb.pc = "returned" => \A k \in 1..Len(runs) : runs[k] = fsb.sections
  /\ parser = ResumeParser(None)

\* C15 (witness): a second run has returned, with a boundary, after the skills
\* and the contact parser ran on the text.
C15_Witness ==
  /\ fsb.pc = "returned" /\ Len(runs) > 0
  /\ DOMAIN fsb.sections # {}
  /\ sk # Idle /\ ci # Idle

(***************************************************************************)
(* Several parse_resume calls interleaved on one instance                  *)
(***************************************************************************)
\* The threads that call parse_resume on the instance.
Workers == {1, 2}

BatchFilePool ==
  {TextFile(ScenarioText), TextFile("Jane Doe\n \nSkills\nGo, Rust"), TextFile(" \n"),
   MissingFile,
   PdfFile(<<[plumber |-> "Skills", tables |-> <<SkillsTable>>, mu |-> "Skills",
              blocks |-> <<>>, pypdf |-> "Skills"]>>)}

\* The frame of a call as if the text were kept in an attribute of the
\* instance: every thread reads the text that the first thread has extracted.
CallFrameSharedText(frames, w) == [frames[w] EXCEPT !.text = frames[1].text]

\* The locals of the call of thread w.
CallFrame(frames, w) == frames[w]

\* The calls after the call of thread w has taken the step to frame f.
WithCall(w, f) == [calls EXCEPT ![w] = f]

BatchOthers == <<fsb, sk, tbl, xp, ci, nm, pr, pdf, edu, blk, parser, runs>>

BatchInit ==
  /\ \E nlp \in NlpPool : parser = ResumeParser(nlp)
  /\ \E first \in BatchFilePool, second \in BatchFilePool :
       calls = <<PrEnter(first), PrEnter(second)>>
  /\ runs = <<>>
  /\ fsb = Idle /\ sk = Idle /\ tbl = Idle /\ xp = Idle /\ ci = Idle /\ nm = Idle
  /\ pr = Idle /\ pdf = Idle /\ edu = Idle /\ blk = Idle

BatchReadPdf ==
  \E w \in Workers :
    LET f == CallFrame(calls, w)
    IN  /\ f.pc = "extract" /\ IsPdfPath(f.file.path)
        /\ calls' = WithCall(w, PrReadPdf(f))
        /\ UNCHANGED BatchOthers

BatchReadText ==
  \E w \in Workers :
    LET f == CallFrame(calls, w)
    IN  /\ f.pc = "extract" /\ ~IsPdfPath(f.file.path) /\ f.file.readable
        /\ calls' = WithCall(w, PrReadText(f))
        /\ UNCHANGED BatchOthers

BatchOpenRaises ==
  \E w \in Workers :
    LET f == CallFrame(calls, w)
    IN  /\ f.pc = "extract" /\ ~IsPdfPath(f.file.path) /\ ~f.file.readable
        /\ calls' = WithCall(w, PrOpenRaises(f))
        /\ UNCHANGED BatchOthers

BatchBlank ==
  \E w \in Workers :
    LET f == CallFrame(calls, w)
    IN  /\ f.pc = "check" /\ IsBlankText(f.text)
        /\ calls' = WithCall(w, PrBlank(f))
        /\ UNCHANGED BatchOthers

BatchNotBlank ==
  \E w \in Workers :
    LET f == CallFrame(calls, w)
    IN  /\ f.pc = "check" /\ ~IsBlankText(f.text)
        /\ calls' = WithCall(w, PrNotBlank(f))
        /\ UNCHANGED BatchOthers

BatchEntity ==
  \E w \in Workers :
    LET f == CallFrame(calls, w)
    IN  /\ f.pc = "entities" /\ Len(f.ran) < Len(EntityFields)
        /\ calls' = WithCall(w, PrEntity(f))
        /\ UNCHANGED BatchOthers

BatchReturn ==
  \E w \in Workers :
    LET f == CallFrame(calls, w)
    IN  /\ f.pc = "entities" /\ Len(f.ran) = Len(EntityFields)
        /\ calls' = WithCall(w, PrReturn(f))
        /\ UNCHANGED BatchOthers

BatchNext ==
  \/ BatchReadPdf
  \/ BatchReadText
  \/ BatchOpenRaises
  \/ BatchBlank
  \/ BatchNotBlank
  \/ BatchEntity
  \/ BatchReturn

SpecBatch == BatchInit /\ [][BatchNext]_vars

\* C16: the keyword and vocabulary tables of the instance keep the values
\* that __init__ gave them, and every call that returns while another call
\* runs interleaved with it returns what parse_resume returns for its file
\* when run alone.
C16_CallsDoNotInterfere ==
  /\ parser.section_headers = SectionHeadersTable
  /\ parser.tech_skills = TechSkillsList
  /\ \A w \in Workers :
       /\ calls[w].pc = "returned" => calls[w].result = parse_resume(calls[w].file)
       /\ calls[w].pc = "raised" => ~calls[w].file.readable

\* C16 (witness): the call of one thread has returned a parsed resume while
\* the call of the other thread, on another file, is between two of its
\* extractors.
C16_Witness ==
  \E w, v \in Workers :
    /\ calls[w].pc = "returned" /\ "skills" \in DOMAIN calls[w].result
    /\ calls[w].result.skills # <<>>
    /\ calls[v].pc = "entities" /\ Len(calls[v].ran) \in 1..(Len(EntityFields) - 1)
    /\ calls[v].file # calls[w].file

(***************************************************************************)
(* Properties of the experience parser: table mode                         *)
(***************************************************************************)
\* The 'K: V' segments of a line 'Row N: K1: V1 | K2: V2 | ...' of the table
\* normalizer, as pairs <<K, V>>.
RowSegments(line) ==
  LET body == Split1(line, ": ")[2]
      segments == Split(body, " | ")
  IN  [n \in 1..Len(segments) |-> Split1(segments[n], ": ")]

\* The lines of the section that are rows of the table normalizer.
XpRowLines ==
  LET lines == Split(xp.experience_text, "\n")
  IN  {n \in 1..Len(lines) : StartsWith(lines[n], "Row ") /\ Contains(lines[n], ": ")}

\* C17: in table mode, every 'K: V' segment of a row line whose key holds a
\* position, company, duration or description keyword sets that field of the
\* row's job record to V, the first segment after 'Row N:' included.  Stated
\* for the first row line of a section and the first job record.
C17_EverySegmentMapped ==
  (xp.pc = "returned" /\ XpRowLines # {}) =>
    LET line == Split(xp.experience_text, "\n")[SetMin(XpRowLines)]
        segments == RowSegments(line)
    IN  \A n \in 1..Len(segments) :
          LET field == FieldOfKey(job_field_words, Lower(segments[n][1]))
              later == \E m \in (n + 1)..Len(segments) :
                         FieldOfKey(job_field_words, Lower(segments[m][1])) = field
          IN  (Len(segments[n]) = 2 /\ field # None /\ ~later) =>
                /\ xp.experiences # <<>>
                /\ field \in DOMAIN xp.experiences[1]
                /\ xp.experiences[1][field] = segments[n][2]

(***************************************************************************)
(* Properties of the experience parser: line mode                          *)
(***************************************************************************)
\* The (one-based) lines of the section that are job headers.
XpJobLines == {k \in 1..Len(xp.lines) : xp.headers[k] = "job"}

\* The n-th job header line of the section.
XpJobLine(n) == CHOOSE k \in XpJobLines : Cardinality({j \in XpJobLines : j <= k}) = n

\* The line at which the n-th job ends: the next job header, or the end.
XpJobEnd(n) ==
  IF n < Cardinality(XpJobLines) THEN XpJobLine(n + 1) ELSE Len(xp.lines) + 1

\* The project header lines met while the n-th job is in progress, in source
\* order.
XpProjectLines(n) ==
  LET numbers == [k \in 1..Len(xp.lines) |-> k]
      within == SelectSeq(numbers, LAMBDA k : /\ XpJobLine(n) < k /\ k < XpJobEnd(n)
                                               /\ xp.headers[k] = "project")
  IN  [m \in 1..Len(within) |-> Strip(xp.lines[within[m]])]

\* The header lines of the projects in the projects list of a job.
ProjectHeaders(job) ==
  IF "projects" \in DOMAIN job
  THEN [m \in 1..Len(job["projects"]) |-> job["projects"][m]["raw_header"]]
  ELSE <<>>

\* C18: in line mode, the projects list of every job holds, once each and in
\* source order, the project header lines met while that job was in
\* progress (whether the project ended at the next project header, at the
\* next job header or at the end of the section), and no other project.
C18_EveryProjectFlushed ==
  (xp.pc = "returned" /\ xp.mode = "lines") =>
    /\ Len(xp.experiences) = Cardinality(XpJobLines)
    /\ \A n \in 1..Len(xp.experiences) :
         ProjectHeaders(xp.experiences[n]) = XpProjectLines(n)

\* True when the next line that the loop reads begins with a bullet marker.
XpAtBulletLine == XpAtLine(xp) /\ IsBulletLine(XpLine(xp))

\* C19: in line mode, the step that reads a line beginning with a bullet
\* marker starts no job and no project, and appends the text of the line
\* without its marker to the description buffer of the project in progress.
C19_BulletOnlyAppends ==
  [][XpAtBulletLine =>
       /\ xp'.current_job = xp.current_job
       /\ xp'.current_project = xp.current_project
       /\ xp'.experiences = xp.experiences
       /\ (xp.current_project # NoDict /\ BulletText(XpLine(xp)) # "") =>
            xp'.project_description = Append(xp.project_description, BulletText(XpLine(xp)))]_vars

(***************************************************************************)
(* extract_education as a state machine                                    *)
(***************************************************************************)
EduEnter(text) ==
  [pc |-> "start", text |-> text,
   education_text |-> extract_section_content(text, "education", find_section_boundaries(text)),
   mode |-> "none", lines |-> <<>>, i |-> 0, current_education |-> NoDict, education |-> <<>>]

EduEmptySection(f) == [f EXCEPT !.pc = "returned"]

EduFromTables(f) ==
  [f EXCEPT !.pc = "returned", !.mode = "table",
            !.education = extract_education_from_tables(f.education_text)]

EduBeginLines(f) ==
  [f EXCEPT !.pc = "lines", !.mode = "lines", !.lines = Split(f.education_text, "\n")]

EduLine(f) == Strip(f.lines[f.i + 1])

EduAtLine(f) == f.pc = "lines" /\ f.i < Len(f.lines)

\* if not line or len(line) < 3
EduIsSkipped(f) == EduLine(f) = "" \/ Len(EduLine(f)) < MinEducationLineLen

\* group 1 of the first institution pattern that matches the line, or None.
EduInstitutionOf(f) == FirstGroup(institution_patterns, EduLine(f), 1)

EduSkip(f) == [f EXCEPT !.i = f.i + 1]

EduInstitution(f) ==
  [f EXCEPT !.education = IF f.current_education # NoDict
                          THEN Append(f.education, f.current_education) ELSE f.education,
            !.current_education = NewEducation(EduInstitutionOf(f), EduLine(f)),
            !.i = f.i + 1]

EduDetails(f) ==
  [f EXCEPT !.current_education = EducationDetails(f.current_education, EduLine(f)),
            !.i = f.i + 1]

EduOther(f) == [f EXCEPT !.i = f.i + 1]

EduReturn(f) ==
  [f EXCEPT !.pc = "returned",
            !.education = IF f.current_education # NoDict
                          THEN Append(f.education, f.current_education) ELSE f.education]

MaxEduLines == 3

EduLinePool ==
  {"XYZ University, Pune", "B.Tech in CSE 2019", "CGPA: 8.5 (85%)", "Scored 91.2%", "",
   "Row 1: Degree: BSc | Year: 2019"}

EduOthers == <<fsb, sk, tbl, xp, ci, nm, pr, pdf, blk, parser, calls, runs>>

EduInit ==
  /\ parser = ResumeParser(None)
  /\ calls = <<>> /\ runs = <<>>
  /\ \E ls \in LineSeqs(EduLinePool, MaxEduLines) :
       edu = Called(Join(<<"Education">> \o ls, "\n"))
  /\ fsb = Idle /\ sk = Idle /\ tbl = Idle /\ xp = Idle /\ ci = Idle /\ nm = Idle
  /\ pr = Idle /\ pdf = Idle /\ blk = Idle

EducationSection ==
  /\ edu.pc = "called"
  /\ edu' = EduEnter(edu.text)
  /\ UNCHANGED EduOthers

EducationEmptySection ==
  /\ edu.pc = "start" /\ edu.education_text = ""
  /\ edu' = EduEmptySection(edu)
  /\ UNCHANGED EduOthers

EducationFromTables ==
  /\ edu.pc = "start" /\ edu.education_text # ""
  /\ extract_education_from_tables(edu.education_text) # <<>>
  /\ edu' = EduFromTables(edu)
  /\ UNCHANGED EduOthers

EducationBeginLines ==
  /\ edu.pc = "start" /\ edu.education_text # ""
  /\ extract_education_from_tables(edu.education_text) = <<>>
  /\ edu' = EduBeginLines(edu)
  /\ UNCHANGED EduOthers

EducationSkipLine ==
  /\ EduAtLine(edu) /\ EduIsSkipped(edu)
  /\ edu' = EduSkip(edu)
  /\ UNCHANGED EduOthers

EducationInstitution ==
  /\ EduAtLine(edu) /\ ~EduIsSkipped(edu) /\ EduInstitutionOf(edu) # None
  /\ edu' = EduInstitution(edu)
  /\ UNCHANGED EduOthers

EducationDetailsLine ==
  /\ EduAtLine(edu) /\ ~EduIsSkipped(edu) /\ EduInstitutionOf(edu) = None
  /\ edu.current_education # NoDict
  /\ edu' = EduDetails(edu)
  /\ UNCHANGED EduOthers

EducationOtherLine ==
  /\ EduAtLine(edu) /\ ~EduIsSkipped(edu) /\ EduInstitutionOf(edu) = None
  /\ edu.current_education = NoDict
  /\ edu' = EduOther(edu)
  /\ UNCHANGED EduOthers

EducationReturn ==
  /\ edu.pc = "lines" /\ edu.i >= Len(edu.lines)
  /\ edu' = EduReturn(edu)
  /\ UNCHANGED EduOthers

EduNext ==
  \/ EducationSection
  \/ EducationEmptySection
  \/ EducationFromTables
  \/ EducationBeginLines
  \/ EducationSkipLine
  \/ EducationInstitution
  \/ EducationDetailsLine
  \/ EducationOtherLine
  \/ EducationReturn

SpecEdu == EduInit /\ [][EduNext]_vars

(***************************************************************************)
(* Properties of the education parser                                      *)
(***************************************************************************)
\* True when the next line that the loop reads follows an institution line,
\* is no institution line itself, and holds both a cgpa/gpa match and a
\* percentage match.
EduAtCgpaAndPercentLine ==
  /\ EduAtLine(edu) /\ ~EduIsSkipped(edu) /\ EduInstitutionOf(edu) = None
  /\ edu.current_education # NoDict
  /\ ReSearch(cgpa_pattern, Lower(EduLine(edu))) # 0
  /\ ReSearch(percentage_pattern, EduLine(edu)) # 0

\* C20: the step that reads a line with both a 'cgpa: value' match and an
\* 'NN.N%' match leaves in the entry's cgpa field the cgpa/gpa value (the
\* earlier rule), not the percentage.
C20_CgpaBeforePercentage ==
  [][EduAtCgpaAndPercentLine =>
       /\ edu'.current_education.cgpa = WithCgpa(edu.current_education, EduLine(edu)).cgpa
       /\ ~StartsWith(edu'.current_education.cgpa, "Percentage")]_vars

\* The machine returns what extract_education returns.
EduAgreesWithFunction ==
  edu.pc = "returned" => edu.education = extract_education(edu.text)

(***************************************************************************)
(* extract_tables_from_blocks as a state machine                           *)
(*                                                                         *)
(* blocks is the sequence of the lines of blocks['blocks'] that have       *)
(* spans, in reading order, each with its joined span text and the x and y *)
(* of its bbox.  current_y is None as long as current_row is empty; the    *)
(* frame holds 0 for it then, and no step reads it.                        *)
(***************************************************************************)
BlkEnter(blocks) ==
  [pc |-> "lines", blocks |-> blocks, n |-> 0, current_y |-> 0, current_row |-> <<>>,
   table_candidates |-> <<>>, table_text |-> ""]

\* if not blocks or 'blocks' not in blocks: return ""
BlkNoBlocks(f) == [f EXCEPT !.pc = "returned"]

BlkAtLine(f) == f.pc = "lines" /\ f.blocks # <<>> /\ f.n < Len(f.blocks)

BlkLine(f) == f.blocks[f.n + 1]

\* not line_text.strip()
BlkIsBlank(f) == Strip(BlkLine(f).text) = ""

\* current_y is None or abs(y_pos - current_y) < 5
BlkIsSameRow(f) ==
  Len(f.current_row) = 0 \/ AbsDiff(BlkLine(f).y, f.current_y) < RowTolerance

BlkSkipLine(f) == [f EXCEPT !.n = f.n + 1]

BlkSameRow(f) ==
  [f EXCEPT !.current_row = Append(f.current_row, BlockCell(BlkLine(f))),
            !.current_y = BlkLine(f).y,
            !.n = f.n + 1]

BlkNewRow(f) ==
  [f EXCEPT !.table_candidates = IF Len(f.current_row) > 0
                                 THEN Append(f.table_candidates, SortedByX(f.current_row))
                                 ELSE f.table_candidates,
            !.current_row = <<BlockCell(BlkLine(f))>>,
            !.current_y = BlkLine(f).y,
            !.n = f.n + 1]

\* The last row is added and the rows are converted to text.
BlkReturn(f) ==
  LET rows == IF Len(f.current_row) > 0
              THEN Append(f.table_candidates, SortedByX(f.current_row))
              ELSE f.table_candidates
  IN  [f EXCEPT !.pc = "returned", !.table_candidates = rows, !.table_text = RowsText(rows)]

MaxBlockLines == 3

BlockLinePool ==
  {[text |-> t, x |-> x, y |-> y] : t \in {"Name", "Year ", " "}, x \in {10, 50},
                                    y \in {100, 104, 108}}

BlkOthers == <<fsb, sk, tbl, xp, ci, nm, pr, pdf, edu, parser, calls, runs>>

BlkInit ==
  /\ parser = ResumeParser(None)
  /\ calls = <<>> /\ runs = <<>>
  /\ \E blocks \in LineSeqs(BlockLinePool, MaxBlockLines) : blk = BlkEnter(blocks)
  /\ fsb = Idle /\ sk = Idle /\ tbl = Idle /\ xp = Idle /\ ci = Idle /\ nm = Idle
  /\ pr = Idle /\ pdf = Idle /\ edu = Idle

BlocksNoBlocks ==
  /\ blk.pc = "lines" /\ blk.blocks = <<>>
  /\ blk' = BlkNoBlocks(blk)
  /\ UNCHANGED BlkOthers

BlocksBlankLine ==
  /\ BlkAtLine(blk) /\ BlkIsBlank(blk)
  /\ blk' = BlkSkipLine(blk)
  /\ UNCHANGED BlkOthers

BlocksSameRow ==
  /\ BlkAtLine(blk) /\ ~BlkIsBlank(blk) /\ BlkIsSameRow(blk)
  /\ blk' = BlkSameRow(blk)
  /\ UNCHANGED BlkOthers

BlocksNewRow ==
  /\ BlkAtLine(blk) /\ ~BlkIsBlank(blk) /\ ~BlkIsSameRow(blk)
  /\ blk' = BlkNewRow(blk)
  /\ UNCHANGED BlkOthers

BlocksReturn ==
  /\ blk.pc = "lines" /\ blk.blocks # <<>> /\ blk.n >= Len(blk.blocks)
  /\ blk' = BlkReturn(blk)
  /\ UNCHANGED BlkOthers

BlkNext ==
  \/ BlocksNoBlocks
  \/ BlocksBlankLine
  \/ BlocksSameRow
  \/ BlocksNewRow
  \/ BlocksReturn

SpecBlocks == BlkInit /\ [][BlkNext]_vars

(***************************************************************************)
(* Properties of the layout-aware table recovery                           *)
(***************************************************************************)
\* The machine returns what extract_tables_from_blocks returns.
BlkAgreesWithFunction ==
  blk.pc = "returned" => blk.table_text = extract_tables_from_blocks(blk.blocks)

\* Any two fragments of the row have y positions less than the tolerance apart.
BlkRowWithinTolerance(row) ==
  \A a, b \in 1..Len(row) : AbsDiff(row[a].y, row[b].y) < RowTolerance

\* The fragments of the row are in left-to-right order.
BlkRowLeftToRight(row) ==
  \A a \in 1..(Len(row) - 1) : row[a].x <= row[a + 1].x

BlkIsTableRow(row) == Len(row) >= MinTableRowCells

BlkRowLine(row) == Join([k \in 1..Len(row) |-> row[k].text], " | ") \o "\n"

RECURSIVE BlkConcat(_)
BlkConcat(strs) == IF Len(strs) = 0 THEN "" ELSE strs[1] \o BlkConcat(Tail(strs))

\* Every returned row is ordered left to right by x.
BlkRowsLeftToRight ==
  blk.pc = "returned" =>
    \A r \in 1..Len(blk.table_candidates) : BlkRowLeftToRight(blk.table_candidates[r])

\* The returned text holds exactly the rows of at least two fragments, in
\* order, each as one pipe-joined line.
BlkOnlyTableRowsEmitted ==
  blk.pc = "returned" =>
    LET emitted == SelectSeq(blk.table_candidates, BlkIsTableRow)
    IN  blk.table_text = BlkConcat([r \in 1..Len(emitted) |-> BlkRowLine(emitted[r])])

\* C21: when extract_tables_from_blocks has returned, any two fragments
\* grouped into one row have y positions differing by less than 5, every
\* row is ordered left to right by x, and the text holds exactly the rows
\* of at least 2 fragments as pipe-joined lines.
C21_RowsWithinTolerance ==
  /\ blk.pc = "returned" =>
       \A r \in 1..Len(blk.table_candidates) : BlkRowWithinTolerance(blk.table_candidates[r])
  /\ BlkRowsLeftToRight
  /\ BlkOnlyTableRowsEmitted

(***************************************************************************)
(* The result of the method that ended the chain                           *)
(***************************************************************************)
\* The body of the page loop of the frame's method.
PdfMethodPage(f) ==
  CASE f.method = 1 -> PdfPlumberPage(f)
    [] f.method = 2 -> PdfMuPage(f)
    [] OTHER -> PdfPyPdfPage(f)

RECURSIVE PdfPagesAlone(_)
PdfPagesAlone(f) == IF PdfHasPage(f) THEN PdfPagesAlone(PdfMethodPage(f)) ELSE f

\* What the method accumulates over all the pages of the document when it
\* starts from text = "" and tables_data = [].
PdfMethodAlone(doc, method) == PdfPagesAlone([PdfEnter(doc) EXCEPT !.method = method])

\* True when the call has returned from a method that ran to its end, after
\* an earlier method raised with at least one page already read.
PdfWonAfterPartialFailure ==
  /\ pdf.pc = "returned"
  /\ ~pdf.outcome[Len(pdf.outcome)].raised
  /\ \E k \in 1..(Len(pdf.outcome) - 1) : pdf.outcome[k].raised /\ pdf.doc.fail[k].at > 0

\* C22: when extract_text_from_pdf returns from a method that ran to its end,
\* the text and the table records returned are those of that method alone;
\* nothing that an earlier method accumulated before it raised part-way is in
\* the result.
C22_ResultOfWinnerOnly ==
  (pdf.pc = "returned" /\ ~pdf.outcome[Len(pdf.outcome)].raised) =>
    LET alone == PdfMethodAlone(pdf.doc, pdf.method)
    IN  pdf.text = alone.text /\ pdf.tables_data = alone.tables_data

\* The methods that end without raising and without returning leave nothing
\* behind: the result differs from the winner's own only after a method
\* raised with pages already read.
PdfLeftoverOnlyAfterPartialFailure ==
  (pdf.pc = "returned" /\ ~pdf.outcome[Len(pdf.outcome)].raised /\ ~PdfWonAfterPartialFailure) =>
    LET alone == PdfMethodAlone(pdf.doc, pdf.method)
    IN  pdf.text = alone.text /\ pdf.tables_data = alone.tables_data

(***************************************************************************)
(* The line ranges of the sections                                         *)
(***************************************************************************)
\* end_idx of extract_section_content for a detected kind.
SectionEndIdx(text, section_name, section_boundaries) ==
  EndIdxLoop(section_boundaries, section_boundaries[section_name],
             Len(Split(text, "\n")), 1)

\* The indices of the lines of lines[start_idx + 1 : end_idx].
ContentLineRange(text, section_name, section_boundaries) ==
  LET start_idx == section_boundaries[section_name]
      end_idx == SectionEndIdx(text, section_name, section_boundaries)
  IN  {i \in 0..(Len(Split(text, "\n")) - 1) : i >= start_idx + 1 /\ i < end_idx}

FsbRange(kind) == ContentLineRange(fsb.text, kind, fsb.sections)

\* The content returned for a detected kind is made of the lines of its range.
ContentIsRangeLines ==
  (fsb.pc = "extracted" /\ fsb.section_name \in DOMAIN fsb.sections) =>
    LET range == FsbRange(fsb.section_name)
        first == fsb.sections[fsb.section_name] + 1
    IN  fsb.content = Strip(Join([n \in 1..Cardinality(range) |-> fsb.lines[first + n]], "\n"))

\* C23: for the boundaries that find_section_boundaries returned, the line
\* ranges that extract_section_content selects for two detected kinds are
\* disjoint when their boundaries differ and the same when their boundaries
\* coincide, and no range holds the boundary line of a detected kind.
C23_RangesDisjointOrIdentical ==
  FsbDone =>
    \A k1 \in DOMAIN fsb.sections :
      /\ \A k2 \in DOMAIN fsb.sections :
           IF fsb.sections[k1] = fsb.sections[k2]
           THEN FsbRange(k1) = FsbRange(k2)
           ELSE FsbRange(k1) \cap FsbRange(k2) = {}
      /\ FsbRange(k1) \cap BoundarySet(fsb.sections) = {}

\* Three detected kinds, two of them with the same boundary and the third
\* with a different one and a range that is not empty; the content of one of
\* them has been extracted.
C23_Witness ==
  /\ fsb.pc = "extracted"
  /\ \E k1, k2, k3 \in DOMAIN fsb.sections :
       /\ k1 # k2 /\ fsb.sections[k1] = fsb.sections[k2]
       /\ fsb.sections[k3] < fsb.sections[k1]
       /\ FsbRange(k3) # {}
       /\ fsb.section_name = k3 /\ fsb.content # ""

====
